---- MODULE Spec2Model ----
(***************************************************************************)
(* DocPilot: the dual-type embedding index (services/pinecone_client.py,   *)
(* services/retrieval.py), the question-answering entry points and the      *)
(* two summarization flows (agent/nodes.py, agent/graph.py).                *)
(*                                                                         *)
(* Spec          the index, driven by store / search / delete and by the    *)
(*               question-answering entry points.                           *)
(* SpecPipeline  one summarization run of one document, in the graph flow   *)
(*               (summarize_page) or the streaming flow                     *)
(*               (summarize_page_streaming).                                *)
(***************************************************************************)
EXTENDS Integers, Sequences, FiniteSets, TLC

VARIABLES
    index,        \* Pinecone index: namespace -> set of vectors [id, values, metadata]
    lastOp,       \* the operation that ran last, with its arguments
    results,      \* list returned by the last search / retrieval
    answer,       \* outcome of the last question-answering call
    lastStored,   \* history: (doc, section_id, role) -> text of the latest successful store
    nmut,         \* number of index mutations so far (bounded)
    flow,         \* "none" | "graph" | "stream": which summarization flow runs
    pc,           \* position of the run in its flow
    page,         \* the document of the run: what segmentation yields for it
    state,        \* the AgentState of the run
    loc,          \* locals of summarize_page_streaming
    gen_log,      \* history: per processed section, the generative calls and the first failure
    stage_log,    \* history: the stages of the run, in the order they started
    page_states,  \* SummarizationAgent._page_states
    seg           \* a call of a text service (extractor, splitter, crawler): input and result

indexVars == <<index, lastOp, results, answer, lastStored, nmut>>
runVars   == <<flow, pc, page, state, loc, gen_log, stage_log, seg>>
pipeVars  == <<flow, pc, page, state, loc, gen_log, stage_log, page_states, seg>>
vars      == <<index, lastOp, results, answer, lastStored, nmut,
               flow, pc, page, state, loc, gen_log, stage_log, page_states, seg>>

-----------------------------------------------------------------------------
(* Bounds of the model *)

NumDocs == 2
NumSectionIds == 2
NumVersions == 2
MaxMutations == 1

Docs == 1..NumDocs
SectionIdSet == 1..NumSectionIds
Roles == {"source", "summary"}

(* Python's None for the optional integer arguments *)
None == -1

(* config.py *)
top_k_retrieval == 5
similarity_threshold == 35

(* The arguments the callers of the model pass for top_k and score_threshold *)
TopKChoices == {None, 1}
ThresholdChoices == {None, 50}

(* Queries; 0 is the empty query *)
Queries == {0, 1}

(* The source text of section sid in version v is 600*v characters long: version
   1 fits the metadata limit of 1000 characters, later versions do not.  Its
   summary is shorter. *)
MetadataTextLimit == 1000
TextOf(sid, v) == [id |-> sid, ver |-> v, kind |-> 0, len |-> 600 * v, words |-> 300 * v]
SummaryOf(sid, v) == [id |-> sid, ver |-> v, kind |-> 1, len |-> 100 * v, words |-> 15 * v]
Versions == 1..NumVersions
NoText == [id |-> 0, ver |-> 0, kind |-> 0, len |-> 0, words |-> 0]

Min(a, b) == IF a < b THEN a ELSE b

-----------------------------------------------------------------------------
(* services/pinecone_client.py *)

generate_namespace(page_url) == page_url

generate_section_id(page_url, section_id, embedding_type) ==
    <<page_url, section_id, embedding_type>>

(* text[:1000] *)
TruncateText(t) == [t EXCEPT !.len = Min(t.len, MetadataTextLimit)]

(* services/embeddings.py: the passage embedding of a text, the query embedding
   of a query *)
embed_texts(t) == [mode |-> "passage", of |-> t]
embed_query(q) == [mode |-> "query", of |-> q]

(* The cosine score of a stored vector against a query embedding, in hundredths:
   a fixed function of the two embedded texts, 35 being the configured threshold *)
Similarity(qe, pe) ==
    LET k == (qe.of + pe.of.id + pe.of.ver + pe.of.kind) % 3
    IN IF k = 0 THEN 80 ELSE IF k = 1 THEN 35 ELSE 20

QueryScores(cands, query) ==
    [c \in cands |-> Similarity(embed_query(query), c.values)]

(* One vector of upsert_sections, for one section dict *)
SectionVector(page_url, section, embedding, embedding_type) ==
    [id       |-> generate_section_id(page_url, section.section_id, embedding_type),
     values   |-> embedding,
     metadata |-> [page_url       |-> page_url,
                   section_id     |-> section.section_id,
                   heading        |-> section.heading,
                   text           |-> TruncateText(section.text),
                   section_text   |-> section.text,
                   summary_text   |-> section.summary_text,
                   embedding_type |-> embedding_type]]

(* index.upsert: a vector replaces the stored vector of the same id *)
IndexUpsertAppend(ns_vectors, new_vectors) == ns_vectors \cup new_vectors

IndexUpsert(ns_vectors, new_vectors) ==
    {v \in ns_vectors : \A n \in new_vectors : n.id # v.id} \cup new_vectors

(* The text store_sections embeds for a section dict *)
RoleText(section, embedding_type) ==
    IF embedding_type = "source" THEN section.text ELSE section.summary_text

(* upsert_sections: the index after the upsert of the embedded sections *)
upsert_sections(idx, page_url, sections, embedding_type) ==
    LET ns == generate_namespace(page_url)
        vectors == {SectionVector(page_url, s, embed_texts(RoleText(s, embedding_type)),
                                  embedding_type) : s \in sections}
    IN [idx EXCEPT ![ns] = IndexUpsert(idx[ns], vectors)]

(* filter={"embedding_type": {"$eq": embedding_type}} *)
EmbeddingTypeFilterNone(md, embedding_type) == TRUE

EmbeddingTypeFilter(md, embedding_type) == md.embedding_type = embedding_type

(* index.query: the top_k best matches of the namespace, best first.  sc gives
   the cosine score of every candidate vector against the query embedding. *)
IndexQuery(cands, sc, top_k) ==
    LET n == Min(top_k, Cardinality(cands))
    IN {s \in [1..n -> cands] :
            /\ \A i, j \in 1..n : i # j => s[i] # s[j]
            /\ \A i, j \in 1..n : i < j => sc[s[i]] >= sc[s[j]]
            /\ \A c \in cands : (\A i \in 1..n : s[i] # c) =>
                                    \A i \in 1..n : sc[s[i]] >= sc[c]}

ScoreFilterNone(score, score_threshold) == TRUE

ScoreFilter(score, score_threshold) == score >= score_threshold

(* match -> result dict of search_sections and of search_similar.  match_id and
   page_url are not in the dict: they record which stored vector the entry is. *)
SectionResult(m, sc) ==
    [section_id     |-> m.metadata.section_id,
     score          |-> sc[m],
     text           |-> m.metadata.section_text,
     heading        |-> m.metadata.heading,
     summary_text   |-> m.metadata.summary_text,
     embedding_type |-> m.metadata.embedding_type,
     match_id       |-> m.id,
     page_url       |-> m.metadata.page_url]

(* The candidates of the filtered query of search_sections *)
SectionCandidates(idx, page_url, embedding_type) ==
    {v \in idx[generate_namespace(page_url)] :
        EmbeddingTypeFilter(v.metadata, embedding_type)}

(* The candidates of the unfiltered query of search_similar *)
SimilarCandidates(idx, page_url) == idx[generate_namespace(page_url)]

(* The loop over results.matches: keep, in order, the matches at or above the threshold *)
RECURSIVE FilterMatches(_, _, _)
FilterMatches(matches, sc, score_threshold) ==
    IF matches = <<>> THEN <<>>
    ELSE LET m == Head(matches)
             rest == FilterMatches(Tail(matches), sc, score_threshold)
         IN IF ScoreFilter(sc[m], score_threshold)
            THEN <<SectionResult(m, sc)>> \o rest
            ELSE rest

(* match -> result dict of search_similar; match_id and page_url as above *)
ChunkResult(m, sc) ==
    [chunk_id    |-> m.id,
     score       |-> sc[m],
     text        |-> m.metadata.section_text,
     heading     |-> m.metadata.heading,
     chunk_index |-> 0,
     section_id  |-> m.metadata.section_id,
     match_id    |-> m.id,
     page_url    |-> m.metadata.page_url]

(* The loop over results.matches of search_similar *)
RECURSIVE FilterChunkMatches(_, _, _)
FilterChunkMatches(matches, sc, score_threshold) ==
    IF matches = <<>> THEN <<>>
    ELSE LET m == Head(matches)
             rest == FilterChunkMatches(Tail(matches), sc, score_threshold)
         IN IF ScoreFilter(sc[m], score_threshold)
            THEN <<ChunkResult(m, sc)>> \o rest
            ELSE rest

delete_page_vectors_source_only(idx, page_url) ==
    [idx EXCEPT ![generate_namespace(page_url)] =
        {v \in @ : v.metadata.embedding_type # "source"}]

delete_page_vectors(idx, page_url) ==
    [idx EXCEPT ![generate_namespace(page_url)] = {}]

check_page_exists(idx, page_url) ==
    Cardinality(idx[generate_namespace(page_url)]) > 0

-----------------------------------------------------------------------------
(* services/retrieval.py *)

(* x or default *)
OrDefault(x, default) == IF x = None \/ x = 0 THEN default ELSE x

(* results.sort(key=score, reverse=True): a stable sort, by insertion *)
RECURSIVE InsertByScore(_, _)
InsertByScore(r, sorted) ==
    IF sorted = <<>> THEN <<r>>
    ELSE IF Head(sorted).score >= r.score
         THEN <<Head(sorted)>> \o InsertByScore(r, Tail(sorted))
         ELSE <<r>> \o sorted

RECURSIVE SortByScore(_)
SortByScore(rs) ==
    IF rs = <<>> THEN <<>>
    ELSE InsertByScore(rs[Len(rs)], SortByScore(SubSeq(rs, 1, Len(rs) - 1)))


(* search_sections: every list the filtered query and the threshold loop can
   return (the order of equal scores is the index's choice) *)
search_sections(idx, page_url, query, embedding_type, top_k, score_threshold) ==
    LET cands == SectionCandidates(idx, page_url, embedding_type)
        sc == QueryScores(cands, query)
    IN {FilterMatches(m, sc, score_threshold) : m \in IndexQuery(cands, sc, top_k)}

(* search_similar: the legacy query, without the embedding_type filter *)
search_similar(idx, page_url, query, top_k, score_threshold) ==
    LET cands == SimilarCandidates(idx, page_url)
        sc == QueryScores(cands, query)
    IN {FilterChunkMatches(m, sc, score_threshold) : m \in IndexQuery(cands, sc, top_k)}

(* store_sections: the index after a successful store *)
store_sections(idx, page_url, sections, embedding_type) ==
    IF sections = {} THEN idx
    ELSE upsert_sections(idx, page_url, sections, embedding_type)

retrieve_sections(idx, page_url, query, embedding_type, top_k, score_threshold) ==
    {SortByScore(r) : r \in search_sections(idx, page_url, query, embedding_type,
                                            OrDefault(top_k, top_k_retrieval),
                                            OrDefault(score_threshold, similarity_threshold))}

retrieve_relevant_chunks(idx, page_url, query, top_k, score_threshold) ==
    {SortByScore(r) : r \in search_similar(idx, page_url, query,
                                           OrDefault(top_k, top_k_retrieval),
                                           OrDefault(score_threshold, similarity_threshold))}


-----------------------------------------------------------------------------
(* agent/state.py *)

NoError == "None"

(* SectionData as extract_sections_node builds it *)
SectionData(section_id, heading, raw_text, token_count, is_large) ==
    [section_id      |-> section_id,
     heading         |-> heading,
     raw_text        |-> raw_text,
     token_count     |-> token_count,
     is_large        |-> is_large,
     summary_text    |-> NoText,
     is_summarized   |-> FALSE,
     source_embedded |-> FALSE]

(* AgentState(page_url=...) with the defaults of the model; section_summaries is
   the dict as its list of (section_id, summary) items, in insertion order *)
create_initial_state_shared(page_url) ==
    IF seg.op = "run" /\ seg.pc # "idle" /\ seg.state.page_url = page_url
    THEN seg.state
    ELSE [page_url              |-> page_url,
          page_type             |-> "unknown",
          sections              |-> <<>>,
          current_section_index |-> 0,
          section_summaries     |-> <<>>,
          page_summary          |-> <<>>,
          final_summary         |-> <<>>,
          embeddings_saved      |-> FALSE,
          error                 |-> NoError]

create_initial_state(page_url) ==
    [page_url              |-> page_url,
     page_type             |-> "unknown",
     sections              |-> <<>>,
     current_section_index |-> 0,
     section_summaries     |-> <<>>,
     page_summary          |-> <<>>,
     final_summary         |-> <<>>,
     embeddings_saved      |-> FALSE,
     error                 |-> NoError]

NoState == [page_url |-> 0]

-----------------------------------------------------------------------------
(* services/section_extractor.py *)

section_small_threshold == 400

Max(a, b) == IF a > b THEN a ELSE b

(* max(1, int(words * 1.3)), 0 for the empty text *)
estimate_tokens(t) == IF t.words = 0 THEN 0 ELSE Max(1, (13 * t.words) \div 10)

is_large_section_below(token_count) == token_count < section_small_threshold

is_large_section(token_count) == token_count > section_small_threshold


-----------------------------------------------------------------------------
(* agent/nodes.py: embed_section_source_node *)

(* sections_for_embedding *)
SectionsForEmbedding(st) ==
    {[section_id   |-> st.sections[i].section_id,
      heading      |-> st.sections[i].heading,
      text         |-> st.sections[i].raw_text,
      summary_text |-> st.sections[i].summary_text] : i \in 1..Len(st.sections)}

(* The "already indexed" test of embed_section_source_node *)
AlreadyIndexed(idx, page_url) == check_page_exists(idx, page_url)

(* The index after the node; ok = FALSE: the embedding or the store call raised *)
EmbedSourceIndex(idx, st, ok) ==
    IF ~ok \/ AlreadyIndexed(idx, st.page_url) THEN idx
    ELSE store_sections(idx, st.page_url, SectionsForEmbedding(st), "source")

(* The state after the node *)
EmbedSourceState(idx, st, ok) ==
    IF ~ok THEN [st EXCEPT !.embeddings_saved = FALSE]
    ELSE IF AlreadyIndexed(idx, st.page_url) THEN [st EXCEPT !.embeddings_saved = TRUE]
    ELSE [st EXCEPT !.embeddings_saved = TRUE,
                    !.sections = [i \in 1..Len(st.sections) |->
                                    [st.sections[i] EXCEPT !.source_embedded = TRUE]]]

-----------------------------------------------------------------------------
(* agent/nodes.py: the summarization nodes *)

chunk_max_tokens == 512

(* The texts of the generative service and of the nodes.  A summary says which
   section it summarizes and from what: the raw text, or the facts of chunks. *)
DirectSummary(section) ==
    [kind |-> "summary", of |-> section.section_id, from |-> "text", facts |-> <<>>]
FactsSummary(section, all_facts) ==
    [kind |-> "summary", of |-> section.section_id, from |-> "facts", facts |-> all_facts]
(* f"[Error summarizing: {section.heading}]" *)
ErrorPlaceholder(section) ==
    [kind |-> "placeholder", of |-> section.heading, from |-> "none", facts |-> <<>>]
(* The "[Error: ...]" text generate_stream yields in place of raising *)
StreamErrorText ==
    [kind |-> "error_text", of |-> 0, from |-> "none", facts |-> <<>>]
NoContentText == [kind |-> "no_content"]
EmptyText == [kind |-> "empty"]
(* The synthesis the generative service returns for the items it is given *)
SynthesisOf(items) == [kind |-> "synthesis", of |-> items]
(* "\n\n---\n\n".join(section_summaries.values()) *)
JoinedSummaries(items) == [kind |-> "joined", of |-> [i \in 1..Len(items) |-> items[i][2]]]

(* text.replace('\n', ' ').split('. '): the word counts of the sentences of a text.
   A text that does not say how it is punctuated has sentences of 200 words. *)
Sentences(t) ==
    IF "sentences" \in DOMAIN t THEN t.sentences
    ELSE LET full == t.words \div 200
             rest == t.words % 200
         IN [i \in 1..(full + IF rest > 0 THEN 1 ELSE 0) |-> IF i <= full THEN 200 ELSE rest]

(* The loop of _split_section_into_chunks over the sentences, and its last chunk *)
RECURSIVE SplitLoop(_, _, _, _)
SplitLoop(sentences, current_chunk, current_tokens, chunks) ==
    IF sentences = <<>>
    THEN IF current_chunk # <<>>
         THEN Append(chunks, [index |-> Len(chunks), sentences |-> current_chunk,
                              token_count |-> current_tokens])
         ELSE chunks
    ELSE LET sentence == Head(sentences)
             sentence_tokens == (13 * sentence) \div 10
         IN IF sentence = 0
            THEN SplitLoop(Tail(sentences), current_chunk, current_tokens, chunks)
            ELSE IF current_tokens + sentence_tokens > chunk_max_tokens /\ current_chunk # <<>>
            THEN SplitLoop(Tail(sentences), <<sentence>>, sentence_tokens,
                           Append(chunks, [index |-> Len(chunks), sentences |-> current_chunk,
                                           token_count |-> current_tokens]))
            ELSE SplitLoop(Tail(sentences), Append(current_chunk, sentence),
                           current_tokens + sentence_tokens, chunks)

_split_section_into_chunks_per_sentence(section) ==
    LET sentences == SelectSeq(Sentences(section.raw_text), LAMBDA w : w # 0)
    IN [c \in 1..Len(sentences) |->
          [index |-> c - 1, sentences |-> <<sentences[c]>>,
           token_count |-> (13 * sentences[c]) \div 10]]

_split_section_into_chunks(section) == SplitLoop(Sentences(section.raw_text), <<>>, 0, <<>>)

(* One call of the generative service, as the log of the run records it *)
GenCall(api, purpose, section_id, chunk, input, ok) ==
    [api |-> api, purpose |-> purpose, section |-> section_id, chunk |-> chunk,
     input |-> input, ok |-> ok]

(* The facts of a chunk, as the service extracts them *)
FactsOf(section, chunk) == <<section.section_id, chunk.index>>

(* The number of generative calls the processing of a section can issue *)
SectionCalls(section) ==
    IF section.is_large THEN Len(_split_section_into_chunks(section)) + 1 ELSE 1

SectionGenCallsOverRawText(section, fail_at, summary_api) ==
    LET chunks == _split_section_into_chunks(section)
        n == IF section.is_large THEN Len(chunks) ELSE 0
        last == IF fail_at = 0 THEN n + 1 ELSE fail_at
    IN [c \in 1..last |->
          IF c <= n
          THEN GenCall("generate", "fact_extraction", section.section_id, c,
                       chunks[c], c # fail_at)
          ELSE GenCall(summary_api,
                       IF section.is_large THEN "summary_from_facts" ELSE "summary_direct",
                       section.section_id, 0, <<section.raw_text>>, c # fail_at)]

(* The calls _process_small_section / _process_large_section issue when the call
   number fail_at raises (0: none raises): the calls up to the first that raises *)
SectionGenCalls(section, fail_at, summary_api) ==
    LET chunks == _split_section_into_chunks(section)
        n == IF section.is_large THEN Len(chunks) ELSE 0
        last == IF fail_at = 0 THEN n + 1 ELSE fail_at
    IN [c \in 1..last |->
          IF c <= n
          THEN GenCall("generate", "fact_extraction", section.section_id, c,
                       chunks[c], c # fail_at)
          ELSE GenCall(summary_api,
                       IF section.is_large THEN "summary_from_facts" ELSE "summary_direct",
                       section.section_id, 0,
                       IF section.is_large
                       THEN [c2 \in 1..n |-> FactsOf(section, chunks[c2])]
                       ELSE <<section.raw_text>>,
                       c # fail_at)]

(* The summary the two functions return when no call raises *)
SectionSummary(section) ==
    IF section.is_large
    THEN LET chunks == _split_section_into_chunks(section)
         IN FactsSummary(section, [c \in 1..Len(chunks) |-> FactsOf(section, chunks[c])])
    ELSE DirectSummary(section)

DictSetAlone(items, key, value) == <<<<key, value>>>>

(* dict[key] = value on the list of items of a dict *)
DictSet(items, key, value) ==
    IF \E i \in 1..Len(items) : items[i][1] = key
    THEN [i \in 1..Len(items) |-> IF items[i][1] = key THEN <<key, value>> ELSE items[i]]
    ELSE Append(items, <<key, value>>)

process_section_node_stuck_on_error(st, fail_at) ==
    LET idx == st.current_section_index
    IN IF idx >= Len(st.sections) THEN st
       ELSE LET section == st.sections[idx + 1]
            IN IF fail_at = 0
               THEN [st EXCEPT
                        !.section_summaries = DictSet(@, section.section_id,
                                                      SectionSummary(section)),
                        !.sections[idx + 1] = [section EXCEPT
                                                 !.summary_text = SectionSummary(section),
                                                 !.is_summarized = TRUE],
                        !.current_section_index = idx + 1]
               ELSE [st EXCEPT
                        !.section_summaries = DictSet(@, section.section_id,
                                                      ErrorPlaceholder(section))]

(* process_section_node: the state after the node; fail_at as above *)
process_section_node(st, fail_at) ==
    LET idx == st.current_section_index
    IN IF idx >= Len(st.sections) THEN st
       ELSE LET section == st.sections[idx + 1]
            IN IF fail_at = 0
               THEN [st EXCEPT
                        !.section_summaries = DictSet(@, section.section_id,
                                                      SectionSummary(section)),
                        !.sections[idx + 1] = [section EXCEPT
                                                 !.summary_text = SectionSummary(section),
                                                 !.is_summarized = TRUE],
                        !.current_section_index = idx + 1]
               ELSE [st EXCEPT
                        !.section_summaries = DictSet(@, section.section_id,
                                                      ErrorPlaceholder(section)),
                        !.current_section_index = idx + 1]

should_continue_processing_early(current_index, sections) ==
    IF current_index + 1 < Len(sections) THEN "continue" ELSE "embed"

should_continue_processing(current_index, sections) ==
    IF current_index < Len(sections) THEN "continue" ELSE "embed"

(* if len(state.section_summaries) == 1 *)
OnlyOneSummaryNever(section_summaries) == FALSE

OnlyOneSummary(section_summaries) == Len(section_summaries) = 1

(* synthesize_page_node: the page summary; ok = FALSE: the synthesis call raised *)
synthesize_page_node(st, ok) ==
    IF st.section_summaries = <<>>
    THEN [st EXCEPT !.page_summary = NoContentText]
    ELSE IF OnlyOneSummary(st.section_summaries)
    THEN [st EXCEPT !.page_summary = st.section_summaries[1][2],
                    !.final_summary = st.section_summaries[1][2]]
    ELSE IF ok
    THEN [st EXCEPT !.page_summary = SynthesisOf(st.section_summaries),
                    !.final_summary = SynthesisOf(st.section_summaries)]
    ELSE [st EXCEPT !.page_summary = JoinedSummaries(st.section_summaries),
                    !.final_summary = JoinedSummaries(st.section_summaries)]

(* The synthesis call of synthesize_page_node, if it issues one *)
SynthesisCalls(st, api, ok) ==
    IF st.section_summaries = <<>> \/ OnlyOneSummary(st.section_summaries) THEN <<>>
    ELSE <<GenCall(api, "page_synthesis", 0, 0, st.section_summaries, ok)>>

(* if len(section_summaries) > 1 of summarize_page_streaming *)
StreamNeedsSynthesis(section_summaries) == Len(section_summaries) > 1

(* Step 5 of summarize_page_streaming; ok = FALSE: generate_stream reports an error *)
StreamPageSummary(st, ok) ==
    IF StreamNeedsSynthesis(st.section_summaries)
    THEN IF ok THEN SynthesisOf(st.section_summaries) ELSE StreamErrorText
    ELSE IF st.section_summaries # <<>> THEN st.section_summaries[1][2] ELSE EmptyText

StreamSynthesisCalls(st, ok) ==
    IF StreamNeedsSynthesis(st.section_summaries)
    THEN SynthesisCalls(st, "generate_stream", ok)
    ELSE <<>>

-----------------------------------------------------------------------------
(* The index specification: state and helpers *)

SectionDict(sid, v) ==
    [section_id |-> sid, heading |-> "h", text |-> TextOf(sid, v),
     summary_text |-> SummaryOf(sid, v)]

NoSection == [section_id |-> 0]
StoreKeys == Docs \X SectionIdSet \X Roles

NoAnswer == [via |-> "none", status |-> "none", context |-> <<>>]

Op(op, doc, query, role, top_k, threshold, ok) ==
    [op |-> op, doc |-> doc, query |-> query, role |-> role, top_k |-> top_k,
     threshold |-> threshold, ok |-> ok, sids |-> {}, overwritten |-> {}, removed |-> {},
     crawled |-> <<>>, page_links |-> <<>>, requested |-> <<>>, retry_ok |-> TRUE,
     event |-> "none"]

Answer(via, status, grounding) == [via |-> via, status |-> status, context |-> grounding]

(* lastStored after a successful store of the section dicts under (doc, role) *)
RecordStore(ls, doc, sections, role) ==
    [k \in StoreKeys |->
        IF k[1] = doc /\ k[3] = role /\ \E s \in sections : s.section_id = k[2]
        THEN CHOOSE s \in sections : s.section_id = k[2]
        ELSE ls[k]]

(* lastStored after the deletion of a document *)
RecordDelete(ls, doc) == [k \in StoreKeys |-> IF k[1] = doc THEN NoSection ELSE ls[k]]

(* An index in which every section of every document was stored, in version 1,
   under both roles *)
AllSectionsV1 == {SectionDict(sid, 1) : sid \in SectionIdSet}

RECURSIVE PopulatedIndex(_)
PopulatedIndex(docs) ==
    IF docs = {} THEN [d \in Docs |-> {}]
    ELSE LET d == CHOOSE x \in docs : TRUE
         IN store_sections(store_sections(PopulatedIndex(docs \ {d}),
                                          d, AllSectionsV1, "source"),
                           d, AllSectionsV1, "summary")

(* The index is empty, or earlier stores have populated it *)
InitIndex ==
    /\ \E docs \in {{}, Docs} :
          /\ index = PopulatedIndex(docs)
          /\ lastStored = [k \in StoreKeys |->
                             IF k[1] \in docs THEN SectionDict(k[2], 1) ELSE NoSection]
    /\ lastOp = Op("init", 0, 0, "none", None, None, TRUE)
    /\ results = <<>>
    /\ answer = NoAnswer
    /\ nmut = 0

(* The pipeline variables before any run *)
InitRun ==
    /\ flow = "none"
    /\ pc = "idle"
    /\ page = <<>>
    /\ state = NoState
    /\ loc = [i |-> 0, section_summaries |-> <<>>]
    /\ gen_log = <<>>
    /\ stage_log = <<>>

InitCache == page_states = [d \in Docs |-> NoState]

-----------------------------------------------------------------------------
(* The index specification: actions *)

(* RetrievalService.store_sections(page_url, sections, embedding_type) *)
StoreSections(d, S, v, r, ok) ==
    LET sections == {SectionDict(sid, v) : sid \in S}
    IN /\ nmut < MaxMutations
       /\ nmut' = nmut + 1
       /\ index' = IF ok THEN store_sections(index, d, sections, r) ELSE index
       /\ lastStored' = IF ok THEN RecordStore(lastStored, d, sections, r) ELSE lastStored
       /\ lastOp' = [Op("store_sections", d, 0, r, None, None, ok) EXCEPT
                        !.sids = S,
                        !.overwritten = {sid \in S : /\ ok
                                                     /\ lastStored[<<d, sid, r>>] # NoSection
                                                     /\ lastStored[<<d, sid, r>>].text.ver # v}]
       /\ results' = <<>>
       /\ answer' = NoAnswer
       /\ UNCHANGED pipeVars

(* RetrievalService.retrieve_sections(page_url, query, embedding_type, top_k, score_threshold) *)
RetrieveSections(d, q, r, k, t) ==
    /\ \E res \in retrieve_sections(index, d, q, r, k, t) : results' = res
    /\ lastOp' = Op("retrieve_sections", d, q, r, k, t, TRUE)
    /\ answer' = NoAnswer
    /\ UNCHANGED <<index, lastStored, nmut>>
    /\ UNCHANGED pipeVars

(* RetrievalService.check_page_indexed(page_url) *)
CheckPageIndexed(d) ==
    /\ lastOp' = Op("check_page_indexed", d, 0, "none", None, None, check_page_exists(index, d))
    /\ results' = <<>>
    /\ answer' = NoAnswer
    /\ UNCHANGED <<index, lastStored, nmut>>
    /\ UNCHANGED pipeVars

(* api/routes.py clear_page_cache: agent.clear_cache(page_url), then
   pinecone.delete_page_vectors(page_url) *)
ClearPageCache(d) ==
    /\ nmut < MaxMutations
    /\ nmut' = nmut + 1
    /\ page_states' = [page_states EXCEPT ![d] = NoState]
    /\ index' = delete_page_vectors(index, d)
    /\ lastStored' = RecordDelete(lastStored, d)
    /\ lastOp' = [Op("clear_page_cache", d, 0, "none", None, None, TRUE)
                    EXCEPT !.removed = {v.metadata.embedding_type :
                                            v \in index[generate_namespace(d)]}]
    /\ results' = <<>>
    /\ answer' = NoAnswer
    /\ UNCHANGED runVars


(* The outcomes of the calls a question-answering handler makes to the
   embedding service and to the generative service *)
QAOutcomes == {"ok", "embed_fail", "llm_fail"}

(* SummarizationAgent.handle_followup -> followup graph -> handle_followup_node *)
HandleFollowup(d, q, out) ==
    /\ \E res \in retrieve_sections(index, d, q, "source", None, None) :
          /\ results' = IF q = 0 \/ out = "embed_fail" THEN <<>> ELSE res
          /\ answer' = IF q = 0 THEN Answer("handle_followup", "no_query", <<>>)
                        ELSE IF out = "embed_fail" THEN Answer("handle_followup", "error", <<>>)
                        ELSE IF res = <<>> THEN Answer("handle_followup", "not_found", <<>>)
                        ELSE IF out = "llm_fail" THEN Answer("handle_followup", "error", res)
                        ELSE Answer("handle_followup", "answered", res)
    /\ lastOp' = Op("handle_followup", d, q, "source", None, None, out = "ok")
    /\ UNCHANGED <<index, lastStored, nmut>>
    /\ UNCHANGED pipeVars

(* SummarizationAgent.handle_followup_streaming -> nodes.handle_followup_streaming;
   the module binds that name to its second definition, which retrieves through
   retrieve_relevant_chunks.  generate_stream reports a failure as an error text. *)
HandleFollowupStreaming(d, q, out) ==
    /\ \E res \in retrieve_relevant_chunks(index, d, q, None, None) :
          /\ results' = IF q = 0 \/ out = "embed_fail" THEN <<>> ELSE res
          /\ answer' = IF q = 0 THEN Answer("handle_followup_streaming", "no_query", <<>>)
                        ELSE IF out = "embed_fail"
                             THEN Answer("handle_followup_streaming", "error", <<>>)
                        ELSE IF res = <<>>
                             THEN Answer("handle_followup_streaming", "not_found", <<>>)
                        ELSE IF out = "llm_fail"
                             THEN Answer("handle_followup_streaming", "error_text", res)
                        ELSE Answer("handle_followup_streaming", "answered", res)
    /\ lastOp' = Op("handle_followup_streaming", d, q, "none", None, None, out = "ok")
    /\ UNCHANGED <<index, lastStored, nmut>>
    /\ UNCHANGED pipeVars

(* SummarizationAgent.is_page_indexed(page_url) on the cache *)
is_page_indexed(cache, page_url) ==
    cache[page_url] # NoState /\ cache[page_url].embeddings_saved

(* --- handle_chat_query_streaming and its link-following fallback --- *)

max_pages == 3

-----------------------------------------------------------------------------
(* services/link_crawler.py: LinkCrawler                                      *)
(*                                                                           *)
(* A link of a page text is its form (an HTML anchor or a markdown link),    *)
(* its href (relative, absolute with a scheme and a host, or a fragment), the *)
(* number of query words its text and its context share with the query, and  *)
(* the number of documentation keywords among them.                          *)

BaseHost == "docs.example"
OtherHost == "elsewhere.example"

(* urljoin(base_url, href), as scheme, host (netloc) and path; the base url is
   an https url of BaseHost *)
urljoin(href) ==
    IF href.kind = "relative"
    THEN [scheme |-> "https", netloc |-> BaseHost, path |-> href.path]
    ELSE [scheme |-> href.kind, netloc |-> href.host, path |-> href.path]

LinkDict(link) == [url |-> urljoin(link.href), text |-> link.text, context |-> link.context,
                   kw |-> link.kw]

(* The loop over soup.find_all('a', href=True) *)
RECURSIVE HtmlLinks(_)
HtmlLinks(links) ==
    IF links = <<>> THEN <<>>
    ELSE LET link == Head(links)
         IN IF \/ link.form # "html"
               \/ link.href.kind = "fragment"
               \/ urljoin(link.href).netloc # BaseHost
            THEN HtmlLinks(Tail(links))
            ELSE <<LinkDict(link)>> \o HtmlLinks(Tail(links))

(* if href.startswith('#') or href.startswith('http://') and
   urlparse(href).netloc != urlparse(base_url).netloc: continue *)
MarkdownSkip(href) ==
    \/ href.kind = "fragment"
    \/ (href.kind = "http" /\ href.host # BaseHost)

(* The loop over md_link_pattern.finditer(page_text), appending to the links
   found so far those whose url is not among them *)
RECURSIVE MarkdownLinks(_, _)
MarkdownLinks(links, found) ==
    IF links = <<>> THEN found
    ELSE LET link == Head(links)
         IN IF \/ link.form # "md"
               \/ MarkdownSkip(link.href)
               \/ \E i \in 1..Len(found) : found[i].url = urljoin(link.href)
            THEN MarkdownLinks(Tail(links), found)
            ELSE MarkdownLinks(Tail(links), Append(found, LinkDict(link)))

extract_links(page_links) == MarkdownLinks(page_links, HtmlLinks(page_links))

(* score = (text_overlap * 3) + context_overlap + (keyword_bonus * 2) *)
RelevanceScore(link) == (link.text * 3) + link.context + (link.kw * 2)

(* scored_links.sort(key=relevance_score, reverse=True): a stable sort *)
RECURSIVE InsertByRelevance(_, _)
InsertByRelevance(sorted, link) ==
    IF sorted = <<>> THEN <<link>>
    ELSE IF Head(sorted).relevance_score >= link.relevance_score
    THEN <<Head(sorted)>> \o InsertByRelevance(Tail(sorted), link)
    ELSE <<link>> \o sorted

RECURSIVE SortByRelevance(_)
SortByRelevance(links) ==
    IF links = <<>> THEN <<>>
    ELSE InsertByRelevance(SortByRelevance(SubSeq(links, 1, Len(links) - 1)),
                           links[Len(links)])

ScoredLink(link) ==
    [url |-> link.url, text |-> link.text, context |-> link.context, kw |-> link.kw,
     relevance_score |-> RelevanceScore(link)]

score_links_for_query_keep_all(links) ==
    SortByRelevance([i \in 1..Len(links) |-> ScoredLink(links[i])])

score_links_for_query(links) ==
    SortByRelevance(SelectSeq([i \in 1..Len(links) |-> ScoredLink(links[i])],
                              LAMBDA l : l.relevance_score > 0))

(* top_links = scored_links[:self.max_pages] *)
TopLinksAll(scored_links) == scored_links

TopLinks(scored_links) == SubSeq(scored_links, 1, Min(max_pages, Len(scored_links)))

(* fetch_page_content(url): the page, or None when the fetch fails or times out *)
FetchedPage(link) == [url |-> link.url, title |-> link.text]

(* crawl_relevant_pages: the urls requested and the pages returned, the fetches at
   the positions in fails having failed *)
crawl_relevant_pages(page_links, fails) ==
    LET links == extract_links(page_links)
        scored_links == score_links_for_query(links)
        top_links == TopLinks(scored_links)
        positions == SelectSeq([i \in 1..Len(top_links) |-> i], LAMBDA i : i \notin fails)
    IN [links     |-> links,
        scored    |-> scored_links,
        requested |-> [i \in 1..Len(top_links) |-> top_links[i].url],
        pages     |-> [k \in 1..Len(positions) |-> FetchedPage(top_links[positions[k]])]]

SortedSeq(S) ==
    CHOOSE q \in [1..Cardinality(S) -> S] : \A i, j \in 1..Cardinality(S) : i < j => q[i] < q[j]

(* The sequences of pages a page text can link to: up to max_pages links that
   all go to one page, or that go round the other pages in turn *)
CrawlResults(d) ==
    LET others == SortedSeq(Docs \ {d})
    IN {[i \in 1..n |-> others[((i - 1) % k) + 1]] :
            n \in 0..max_pages, k \in {1, Len(others)}}

(* The page texts of the chat queries: HTML anchors with relative hrefs to the
   pages of targets, each of them sharing words with the query or none of them *)
ChatPageLinks(d) ==
    {[i \in 1..Len(targets) |->
        [form |-> "html",
         href |-> [kind |-> "relative", host |-> BaseHost, path |-> targets[i]],
         text |-> overlap, context |-> overlap, kw |-> 0]] :
        targets \in CrawlResults(d), overlap \in {0, 1}}

(* The documents of the pages the crawler returned *)
CrawledDocs(crawl) == [i \in 1..Len(crawl.pages) |-> crawl.pages[i].url.path]

(* What a fetched page turns out to be: its text long enough to index or not, the
   sections segmentation finds in it, and whether its embedding call succeeds *)
PagePlans ==
    [S : {{}, SectionIdSet}, v : {1}, ok : BOOLEAN, long : {TRUE}]
        \cup {[S |-> {}, v |-> 1, ok |-> TRUE, long |-> FALSE]}

(* The state index_page_for_chat has built when it reaches the embedding step *)
ChatPageState(p, plan) ==
    [create_initial_state(p) EXCEPT
        !.sections = [i \in 1..Cardinality(plan.S) |->
                        LET sid == SortedSeq(plan.S)[i]
                        IN SectionData(sid, "h", TextOf(sid, plan.v),
                                       estimate_tokens(TextOf(sid, plan.v)),
                                       is_large_section(estimate_tokens(TextOf(sid, plan.v))))]]

PageSet(pages) == {pages[i] : i \in 1..Len(pages)}

(* for page in crawled_pages: if len(page["text"]) > 50: index_page_for_chat(...) *)
IndexCrawledPages(idx, pages, plan) ==
    [p \in Docs |->
        IF p \in PageSet(pages) /\ plan[p].long
        THEN EmbedSourceIndex(idx, ChatPageState(p, plan[p]), plan[p].ok)[p]
        ELSE idx[p]]

CacheCrawledPages(cache, idx, pages, plan) ==
    [p \in Docs |->
        IF p \in PageSet(pages) /\ plan[p].long
        THEN EmbedSourceState(idx, ChatPageState(p, plan[p]), plan[p].ok)
        ELSE cache[p]]

RecordCrawl(ls, idx, pages, plan) ==
    [k \in StoreKeys |->
        IF /\ k[1] \in PageSet(pages) /\ k[3] = "source"
           /\ plan[k[1]].long /\ plan[k[1]].ok /\ k[2] \in plan[k[1]].S
           /\ ~AlreadyIndexed(idx, k[1])
        THEN SectionDict(k[2], plan[k[1]].v)
        ELSE ls[k]]

(* result["source_url"] = page["url"] *)
WithSourceUrl(r, url) ==
    [section_id |-> r.section_id, score |-> r.score, text |-> r.text, heading |-> r.heading,
     summary_text |-> r.summary_text, embedding_type |-> r.embedding_type,
     match_id |-> r.match_id, page_url |-> r.page_url, source_url |-> url]

(* The second retrieval, page by page, top_k = 3 each: all_retrieved *)
RECURSIVE RetrieveAcross(_, _, _)
RetrieveAcross(idx, pages, query) ==
    IF pages = <<>> THEN {<<>>}
    ELSE {[i \in 1..Len(a) |-> WithSourceUrl(a[i], Head(pages))] \o b :
            a \in retrieve_sections(idx, Head(pages), query, "source", 3, None),
            b \in RetrieveAcross(idx, Tail(pages), query)}

MergeRetrievedAsFound(all_retrieved) == all_retrieved

(* all_retrieved.sort(...); retrieved = all_retrieved[:5] *)
MergeRetrieved(all_retrieved) ==
    SubSeq(SortByScore(all_retrieved), 1, Min(5, Len(all_retrieved)))

ChatAnswer(retrieved, out) ==
    IF retrieved = <<>> THEN Answer("handle_chat_query_streaming", "not_found", <<>>)
    ELSE IF out = "llm_fail" THEN Answer("handle_chat_query_streaming", "error_text", retrieved)
    ELSE Answer("handle_chat_query_streaming", "answered", retrieved)

(* The first retrieval finds something, or there is no page text: no fallback *)
HandleChatQueryStreaming(d, q, has_text, out) ==
    /\ \E res \in retrieve_sections(index, d, q, "source", 5, None) :
          /\ out = "embed_fail" \/ res # <<>> \/ ~has_text
          /\ results' = IF out = "embed_fail" THEN <<>> ELSE res
          /\ answer' = IF out = "embed_fail"
                        THEN Answer("handle_chat_query_streaming", "error", <<>>)
                        ELSE ChatAnswer(res, out)
    /\ lastOp' = Op("handle_chat_query_streaming", d, q, "source", 5, None, out = "ok")
    /\ UNCHANGED <<index, lastStored, nmut>>
    /\ UNCHANGED pipeVars

(* The first retrieval is empty and the page text is there: crawl, index the
   crawled pages, retrieve again across them.  crawl_ok = FALSE: the crawl raised;
   retry_ok = FALSE: the second retrieval raised after the pages were indexed.
   A behaviour has the fallback as its first change of the index, if at all. *)
HandleChatQueryFallback(d, q, page_links, fails, plan, crawl_ok, retry_ok, out) ==
    /\ nmut = 0
    /\ <<>> \in retrieve_sections(index, d, q, "source", 5, None)
    /\ LET crawl == crawl_relevant_pages(page_links, fails)
           crawled == IF crawl_ok THEN CrawledDocs(crawl) ELSE <<>>
           idx2 == IndexCrawledPages(index, crawled, plan)
       IN /\ index' = idx2
          /\ page_states' = CacheCrawledPages(page_states, index, crawled, plan)
          /\ lastStored' = RecordCrawl(lastStored, index, crawled, plan)
          /\ nmut' = nmut + 1
          /\ \E all_retrieved \in RetrieveAcross(idx2, crawled, q) :
                LET retrieved == IF retry_ok THEN MergeRetrieved(all_retrieved) ELSE <<>>
                IN /\ results' = retrieved
                   /\ answer' = ChatAnswer(retrieved, out)
          /\ lastOp' = [Op("handle_chat_query_fallback", d, q, "source", 5, None, crawl_ok)
                          EXCEPT !.crawled = crawled,
                                 !.page_links = page_links,
                                 !.retry_ok = retry_ok,
                                 !.requested = IF crawl_ok THEN crawl.requested ELSE <<>>]
    /\ UNCHANGED runVars

-----------------------------------------------------------------------------
(* The summarization run: SummarizationAgent.summarize_page (the graph of
   create_summarization_graph) and SummarizationAgent.summarize_page_streaming *)

(* A page, as the texts of the sections segmentation finds in it *)
PageTexts == UNION {[1..n -> Versions] : n \in 0..NumSectionIds}

HeadingOf(i) == <<"h1", "h2", "h3", "h4", "h5">>[i]

(* The sections extract_sections_node builds *)
ExtractedSections(texts) ==
    [i \in 1..Len(texts) |->
        SectionData(i, HeadingOf(i), TextOf(i, texts[i]),
                    estimate_tokens(TextOf(i, texts[i])),
                    is_large_section(estimate_tokens(TextOf(i, texts[i]))))]

(* create_initial_state, then the first node *)
StartRun(f, d, texts) ==
    /\ pc = "idle"
    /\ flow' = f
    /\ page' = [url |-> d, texts |-> texts]
    /\ state' = create_initial_state(d)
    /\ loc' = [i |-> 0, section_summaries |-> <<>>]
    /\ gen_log' = <<>>
    /\ stage_log' = <<>>
    /\ pc' = "classify"
    /\ UNCHANGED <<seg, indexVars, page_states>>

(* classify_page_node; ok = FALSE: the classification call raised *)
ClassifyPage(ok, page_type) ==
    /\ pc = "classify"
    /\ ok \/ page_type = "unknown"
    /\ state' = [state EXCEPT !.page_type = page_type]
    /\ gen_log' = Append(gen_log, GenCall("generate", "classification", 0, 0, <<>>, ok))
    /\ stage_log' = Append(stage_log, "classification")
    /\ pc' = "extract"
    /\ UNCHANGED <<seg, indexVars, page_states, flow, page, loc>>

(* extract_sections_node; ok = FALSE: the extraction raised.  The graph goes on to
   process_section, the streaming flow to its Step 3. *)
ExtractSections(ok) ==
    /\ pc = "extract"
    /\ state' = IF ok
                 THEN [state EXCEPT !.sections = ExtractedSections(page.texts),
                                    !.current_section_index = 0]
                 ELSE [state EXCEPT !.error = "Failed to extract sections"]
    /\ stage_log' = Append(stage_log, "segmentation")
    /\ pc' = IF flow = "graph" THEN "process_section" ELSE "embed"
    /\ UNCHANGED <<seg, indexVars, page_states, flow, page, loc, gen_log>>

(* process_section_node and the conditional edge after it *)
ProcessSection(fail_at) ==
    /\ flow = "graph"
    /\ pc = "process_section"
    /\ LET idx == state.current_section_index
           done == idx >= Len(state.sections)
       IN /\ fail_at \in 0..(IF done THEN 0 ELSE SectionCalls(state.sections[idx + 1]))
          /\ gen_log' = IF done THEN gen_log
                         ELSE gen_log \o SectionGenCalls(state.sections[idx + 1],
                                                        fail_at, "generate")
    /\ state' = process_section_node(state, fail_at)
    /\ stage_log' = Append(stage_log, "section_processing")
    /\ pc' = IF should_continue_processing(state'.current_section_index,
                                           state'.sections) = "continue"
              THEN "process_section"
              ELSE "embed"
    /\ UNCHANGED <<seg, indexVars, page_states, flow, page, loc>>

(* The status reported after the embedding step: the graph flow carries the
   node's current_status, summarize_page_streaming yields a fixed status event *)
EmbedStatus(fl, idx, st, ok) ==
    IF fl = "stream" THEN "embeddings saved"
    ELSE IF ~ok THEN "embedding skipped (error)"
    ELSE IF AlreadyIndexed(idx, st.page_url) THEN "using cached source embeddings"
    ELSE "embedded sections"

(* embed_section_source_node: the graph goes on to synthesize_page, the streaming
   flow to its Step 4, the loop over the sections *)
EmbedSource(ok) ==
    /\ pc = "embed"
    /\ index' = EmbedSourceIndex(index, state, ok)
    /\ state' = EmbedSourceState(index, state, ok)
    /\ lastStored' = IF ok /\ ~AlreadyIndexed(index, state.page_url)
                      THEN RecordStore(lastStored, state.page_url,
                                       SectionsForEmbedding(state), "source")
                      ELSE lastStored
    /\ lastOp' = [Op("embed_section_source", state.page_url, 0, "source", None, None, ok)
                     EXCEPT !.event = EmbedStatus(flow, index, state, ok)]
    /\ stage_log' = Append(stage_log, "source_indexing")
    /\ pc' = IF flow = "graph" THEN "synthesize"
              ELSE IF Len(state.sections) > 0 THEN "stream_section"
              ELSE "stream_synthesis"
    /\ UNCHANGED <<seg, results, answer, nmut, page_states, flow, page, loc, gen_log>>

(* synthesize_page_node, END, and the caching of the result by summarize_page *)
SynthesizePage(ok) ==
    /\ flow = "graph"
    /\ pc = "synthesize"
    /\ ok \/ SynthesisCalls(state, "generate", ok) # <<>>
    /\ state' = synthesize_page_node(state, ok)
    /\ gen_log' = gen_log \o SynthesisCalls(state, "generate", ok)
    /\ page_states' = [page_states EXCEPT ![state.page_url] = state']
    /\ stage_log' = Append(stage_log, "synthesis")
    /\ pc' = "done"
    /\ UNCHANGED <<seg, indexVars, flow, page, loc>>

(* One turn of the loop of Step 4: process_section_streaming(state, i).  A fact
   extraction call that raises ends the run; generate_stream reports its failure
   as a text, which becomes the summary.  After the last section the summaries
   are copied into the state. *)
StreamSection(fail_at) ==
    /\ flow = "stream"
    /\ pc = "stream_section"
    /\ LET section == state.sections[loc.i + 1]
           calls == SectionCalls(section)
           summary == IF fail_at = 0 THEN SectionSummary(section) ELSE StreamErrorText
           summaries == DictSet(loc.section_summaries, section.section_id, summary)
       IN /\ fail_at \in 0..calls
          /\ gen_log' = gen_log \o SectionGenCalls(section, fail_at, "generate_stream")
          /\ IF fail_at \in 1..(calls - 1)
             THEN /\ pc' = "aborted"
                  /\ UNCHANGED <<loc, state>>
             ELSE /\ loc' = [i |-> loc.i + 1, section_summaries |-> summaries]
                  /\ IF loc.i + 1 < Len(state.sections)
                     THEN /\ pc' = "stream_section"
                          /\ UNCHANGED state
                     ELSE /\ pc' = "stream_synthesis"
                          /\ state' = [state EXCEPT !.section_summaries = summaries]
    /\ stage_log' = Append(stage_log, "section_processing")
    /\ UNCHANGED <<seg, indexVars, page_states, flow, page>>

(* Step 5 of summarize_page_streaming and the caching of the final state *)
StreamSynthesis(ok) ==
    /\ flow = "stream"
    /\ pc = "stream_synthesis"
    /\ ok \/ StreamSynthesisCalls(state, ok) # <<>>
    /\ state' = [state EXCEPT !.page_summary = StreamPageSummary(state, ok),
                              !.final_summary = StreamPageSummary(state, ok)]
    /\ gen_log' = gen_log \o StreamSynthesisCalls(state, ok)
    /\ page_states' = [page_states EXCEPT ![state.page_url] = state']
    /\ stage_log' = Append(stage_log, "synthesis")
    /\ pc' = "done"
    /\ UNCHANGED <<seg, indexVars, flow, page, loc>>

(* The consumer of summarize_page_streaming goes away: the generator is closed at
   the yield where it is suspended and runs no further.  Here it is suspended
   before one of its steps has begun. *)
CancelStream ==
    /\ flow = "stream"
    /\ pc \in {"classify", "extract", "embed", "stream_section", "stream_synthesis"}
    /\ pc' = "cancelled"
    /\ UNCHANGED <<seg, indexVars, page_states, flow, page, state, loc, gen_log, stage_log>>

(* Closed at a token yield of the loop of Step 4, after n calls of the section:
   the local section_summary is dropped with the generator *)
CancelInSection(n) ==
    /\ flow = "stream"
    /\ pc = "stream_section"
    /\ LET section == state.sections[loc.i + 1]
       IN /\ n \in 1..SectionCalls(section)
          /\ gen_log' = gen_log \o SubSeq(SectionGenCalls(section, 0, "generate_stream"), 1, n)
    /\ stage_log' = Append(stage_log, "section_processing")
    /\ pc' = "cancelled"
    /\ UNCHANGED <<seg, indexVars, page_states, flow, page, state, loc>>

(* Closed at the yield of the status "complete": Step 5 and the caching of the
   final state have run, the "complete" event has not been yielded *)
CancelAtCompleteStatus(ok) ==
    /\ flow = "stream"
    /\ pc = "stream_synthesis"
    /\ ok \/ StreamSynthesisCalls(state, ok) # <<>>
    /\ state' = [state EXCEPT !.page_summary = StreamPageSummary(state, ok),
                              !.final_summary = StreamPageSummary(state, ok)]
    /\ gen_log' = gen_log \o StreamSynthesisCalls(state, ok)
    /\ page_states' = [page_states EXCEPT ![state.page_url] = state']
    /\ stage_log' = Append(stage_log, "synthesis")
    /\ pc' = "cancelled"
    /\ UNCHANGED <<seg, indexVars, flow, page, loc>>

(* Two invocations of the agent for one page url that overlap in time.  Each is a
   coroutine of the one event loop: the variables of the run hold the invocation
   that is running, seg holds the one that waits at an await, and the event loop
   passes control between them between two steps.  self._page_states and the
   index belong to the agent and its services and are shared. *)
RunContext ==
    [op |-> "run", flow |-> flow, pc |-> pc, page |-> page, state |-> state,
     loc |-> loc, gen_log |-> gen_log, stage_log |-> stage_log]

IdleRun ==
    [op |-> "run", flow |-> "none", pc |-> "idle", page |-> <<>>, state |-> NoState,
     loc |-> [i |-> 0, section_summaries |-> <<>>], gen_log |-> <<>>,
     stage_log |-> <<>>]

SwitchRun ==
    /\ seg.op = "run"
    /\ seg' = RunContext
    /\ flow' = seg.flow
    /\ pc' = seg.pc
    /\ page' = seg.page
    /\ state' = seg.state
    /\ loc' = seg.loc
    /\ gen_log' = seg.gen_log
    /\ stage_log' = seg.stage_log
    /\ UNCHANGED <<indexVars, page_states>>

-----------------------------------------------------------------------------
(* services/section_extractor.py: SectionExtractor.extract_sections           *)
(*                                                                           *)
(* A document text is laid out as: the text before the first heading (pre    *)
(* characters and a newline, when there is any), then per heading its marker *)
(* line, a newline, and its body (body characters and a newline, when there  *)
(* is any). Lengths are in characters; a passage of n characters has          *)
(* WordsOf(n) words.                                                         *)

max_sections_per_page == 30
IntroMinChars == 50
SectionMinChars == 20

WordsOf(n) == (n + 4) \div 5

(* One passage text[from:to].strip(): its span, its stripped length, its words *)
Passage(from, to, len, words) == [from |-> from, to |-> to, len |-> len, words |-> words]

(* Characters of the marker line of a heading: the #'s, a blank, the heading text *)
MarkerLen(h) == h.level + 1 + Len(h.text)

BlockLen(h) == MarkerLen(h) + 1 + (IF h.body > 0 THEN h.body + 1 ELSE 0)

PreLen(doc) == IF doc.pre > 0 THEN doc.pre + 1 ELSE 0

RECURSIVE HeadingStart(_, _)
HeadingStart(doc, i) ==
    IF i = 1 THEN PreLen(doc)
    ELSE HeadingStart(doc, i - 1) + BlockLen(doc.heads[i - 1])

(* len(text) *)
TextLen(doc) ==
    IF doc.heads = <<>> THEN PreLen(doc)
    ELSE HeadingStart(doc, Len(doc.heads)) + BlockLen(doc.heads[Len(doc.heads)])

RECURSIVE HeadWords(_, _)
HeadWords(doc, i) ==
    IF i = 0 THEN 0
    ELSE HeadWords(doc, i - 1) + 2 + WordsOf(doc.heads[i].body)

(* text.strip(): the layout has no leading blank and one trailing newline *)
StrippedText(doc) ==
    Passage(0, TextLen(doc),
            IF TextLen(doc) = 0 THEN 0 ELSE TextLen(doc) - 1,
            WordsOf(doc.pre) + HeadWords(doc, Len(doc.heads)))

(* extract_headings: the matches of the heading pattern, which finditer yields by
   increasing start and the closing sort leaves in that order *)
extract_headings(doc) ==
    [i \in 1..Len(doc.heads) |->
        [level |-> doc.heads[i].level,
         text  |-> doc.heads[i].text,
         start |-> HeadingStart(doc, i),
         end   |-> HeadingStart(doc, i) + MarkerLen(doc.heads[i])]]

section_extractor_generate_section_id_no_index(page_url, heading, section_index) ==
    <<page_url, "section", 0, heading>>

(* SectionExtractor.generate_section_id: the first 12 hex digits of the md5 of
   "{page_url}:section:{index}:{heading}", one value per content string *)
section_extractor_generate_section_id(page_url, heading, section_index) ==
    <<page_url, "section", section_index, heading>>

ExtractedSection(section_id, heading, heading_level, raw_text, start_pos, end_pos) ==
    [section_id    |-> section_id,
     heading       |-> heading,
     heading_level |-> heading_level,
     raw_text      |-> raw_text,
     start_pos     |-> start_pos,
     end_pos       |-> end_pos,
     token_count   |-> estimate_tokens(raw_text)]

(* The content before the first heading, when it is long enough *)
IntroSections(doc, page_url, headings) ==
    IF headings # <<>> /\ headings[1].start > 0 /\ doc.pre > IntroMinChars
    THEN <<ExtractedSection(section_extractor_generate_section_id(page_url, "Introduction", 0),
                            "Introduction", 1,
                            Passage(0, headings[1].start, doc.pre, WordsOf(doc.pre)),
                            0, headings[1].start)>>
    ELSE <<>>

(* The loop over the headings, from heading i on *)
RECURSIVE HeadingLoop(_, _, _, _, _, _)
HeadingLoop(doc, page_url, headings, i, section_index, sections) ==
    IF i > Len(headings) THEN sections
    ELSE LET heading       == headings[i]
             section_start == heading.end + 1
             section_end   == IF i < Len(headings) THEN headings[i + 1].start
                              ELSE TextLen(doc)
             section_text  == Passage(section_start, section_end, doc.heads[i].body,
                                      WordsOf(doc.heads[i].body))
         IN IF section_text.len = 0 \/ section_text.len < SectionMinChars
            THEN HeadingLoop(doc, page_url, headings, i + 1, section_index, sections)
            ELSE HeadingLoop(doc, page_url, headings, i + 1, section_index + 1,
                    Append(sections,
                        ExtractedSection(
                            section_extractor_generate_section_id(page_url, heading.text,
                                                                  section_index),
                            heading.text, heading.level, section_text,
                            section_start, section_end)))

(* One section for the whole text, when the loop emitted none *)
ContentFallback(doc, page_url, sections) ==
    IF sections = <<>> /\ StrippedText(doc).len > 0
    THEN <<ExtractedSection(section_extractor_generate_section_id(page_url, "Content", 0),
                            "Content", 1, StrippedText(doc), 0, TextLen(doc))>>
    ELSE sections

TruncateNever(sections) == sections

Truncate(sections) ==
    IF Len(sections) > max_sections_per_page
    THEN SubSeq(sections, 1, max_sections_per_page)
    ELSE sections

(* The sections before the limit is applied *)
FoundSections(doc, page_url) ==
    LET headings == extract_headings(doc)
        intro    == IntroSections(doc, page_url, headings)
        found    == HeadingLoop(doc, page_url, headings, 1, Len(intro), intro)
    IN ContentFallback(doc, page_url, found)

extract_sections(doc, page_url) == Truncate(FoundSections(doc, page_url))

(* The documents the extractor is run on: pre characters before the first heading,
   then n headings, a few or about as many as the section limit, whose bodies
   alternate between b1 and b2 characters and whose texts cycle through the first
   k heading names *)
MaxHeadings == 32
PreChoices == {0, 10, 50, 51}
BodyChoices == {0, 19, 20, 2500}
HeadingNames == <<"Setup", "Usage", "Content">>
HeadingCounts == (0..4) \cup ((MaxHeadings - 2)..MaxHeadings)

DocOf(pre, n, b1, b2, k) ==
    [pre   |-> pre,
     heads |-> [i \in 1..n |->
                  [text  |-> HeadingNames[((i - 1) % k) + 1],
                   level |-> ((i - 1) % 3) + 1,
                   body  |-> IF i % 2 = 1 THEN b1 ELSE b2]]]

SegDocs ==
    {DocOf(pre, n, b1, b2, k) :
        pre \in PreChoices, n \in HeadingCounts, b1 \in BodyChoices, b2 \in BodyChoices,
        k \in {1, 3}}

NoCall == [op |-> "none"]

(* sections = extractor.extract_sections(text, page_url) *)
SegmentDocument ==
    /\ seg.op = "text"
    /\ seg' = [seg EXCEPT !.op = "extract_sections",
                          !.sections = extract_sections(seg.doc, seg.page_url)]
    /\ UNCHANGED <<indexVars, flow, pc, page, state, loc, gen_log, stage_log, page_states>>

(* The same text segmented a second time *)
SegmentAgain ==
    /\ seg.op = "extract_sections"
    /\ seg' = [seg EXCEPT !.op = "extract_sections_again",
                          !.again = extract_sections(seg.doc, seg.page_url)]
    /\ UNCHANGED <<indexVars, flow, pc, page, state, loc, gen_log, stage_log, page_states>>

-----------------------------------------------------------------------------
(* agent/nodes.py: _split_section_into_chunks and the processing of one section,
   on sections given by the word counts of their sentences (0: a sentence that is
   blank once stripped) *)

max_chunks_per_page == 50
MaxSentences == 4
WordChoices == {0, 1, 10, 100, 300, 400}

RECURSIVE SumSeq(_)
SumSeq(s) == IF s = <<>> THEN 0 ELSE Head(s) + SumSeq(Tail(s))

(* A few sentences of any of the sizes, or more equal sentences than the chunk
   limit of the configuration *)
SentenceLists ==
    UNION {[1..n -> WordChoices] : n \in 0..MaxSentences}
    \cup {[i \in 1..n |-> w] :
             n \in {max_chunks_per_page, max_chunks_per_page + 1}, w \in WordChoices}

PunctuatedText(sentences) ==
    [id |-> 1, ver |-> 0, kind |-> 0, len |-> 6 * SumSeq(sentences),
     words |-> SumSeq(sentences), sentences |-> sentences]

SectionOfText(text) ==
    SectionData(1, HeadingOf(1), text, estimate_tokens(text),
                is_large_section(estimate_tokens(text)))

(* chunks = _split_section_into_chunks(section) *)
SplitSection ==
    /\ seg.op = "section"
    /\ seg' = [seg EXCEPT !.op = "split",
                          !.chunks = _split_section_into_chunks(seg.section)]
    /\ UNCHANGED <<indexVars, flow, pc, page, state, loc, gen_log, stage_log, page_states>>

(* The branch of process_section_node on the section, no call raising *)
ProcessOneSection ==
    /\ seg.op = "split"
    /\ seg' = [seg EXCEPT !.op = "processed",
                          !.calls = SectionGenCalls(seg.section, 0, "generate"),
                          !.summary = SectionSummary(seg.section)]
    /\ UNCHANGED <<indexVars, flow, pc, page, state, loc, gen_log, stage_log, page_states>>

-----------------------------------------------------------------------------
(* services/link_crawler.py: the crawler on its own *)

(* The page texts the crawler is run on: n links, all HTML anchors with relative
   hrefs to different paths but the one at position odd, whose form and href are
   any, with any overlaps with the query *)
MaxLinks == 4
OverlapChoices ==
    {[text |-> 0, context |-> 0, kw |-> 0], [text |-> 0, context |-> 1, kw |-> 0],
     [text |-> 1, context |-> 1, kw |-> 1]}
OddLinks ==
    {[form |-> f, href |-> [kind |-> k, host |-> h, path |-> p]] :
        f \in {"html", "md"}, k \in {"http", "https"}, h \in {OtherHost}, p \in {9}}
    \cup {[form |-> f, href |-> [kind |-> "fragment", host |-> BaseHost, path |-> 0]] :
            f \in {"html", "md"}}
    \cup {[form |-> "md", href |-> [kind |-> "relative", host |-> BaseHost, path |-> 1]]}

PageLinks(n, overlaps, odd, odd_link) ==
    [i \in 1..n |->
        LET shape == IF i = odd THEN odd_link
                     ELSE [form |-> "html",
                           href |-> [kind |-> "relative", host |-> BaseHost, path |-> i]]
        IN [form |-> shape.form, href |-> shape.href, text |-> overlaps[i].text,
            context |-> overlaps[i].context, kw |-> overlaps[i].kw]]

CrawlInputs ==
    UNION {{PageLinks(n, overlaps, odd, odd_link) :
               overlaps \in [1..n -> OverlapChoices], odd \in 0..n, odd_link \in OddLinks}
           : n \in 0..MaxLinks}

(* pages = await crawler.crawl_relevant_pages(page_text, base_url, query) *)
CrawlRelevantPages(fails) ==
    /\ seg.op = "page"
    /\ seg' = [seg EXCEPT !.op = "crawl_relevant_pages",
                          !.fails = fails,
                          !.crawl = crawl_relevant_pages(seg.page_links, fails)]
    /\ UNCHANGED <<indexVars, flow, pc, page, state, loc, gen_log, stage_log, page_states>>

(* links = crawler.extract_links(page_text, base_url) *)
ExtractLinks ==
    /\ seg.op = "page"
    /\ seg' = [seg EXCEPT !.op = "extract_links",
                          !.crawl = [links |-> extract_links(seg.page_links),
                                     scored |-> <<>>, requested |-> <<>>, pages |-> <<>>]]
    /\ UNCHANGED <<indexVars, flow, pc, page, state, loc, gen_log, stage_log, page_states>>

-----------------------------------------------------------------------------
(* services/llm.py: one call of the generative service and its retry loop *)

MAX_RETRIES == 3

INITIAL_BACKOFF == 1

MAX_BACKOFF == 10

MaxFragments == 2

(* Status codes of raise_for_status other than 429 *)
ErrorCodes == {401, 500}

(* What one request to the chat endpoint can do *)
Responses ==
    {[kind |-> "ok"], [kind |-> "rate_limited"], [kind |-> "exception"]}
        \cup {[kind |-> "http_error", code |-> c] : c \in ErrorCodes}

(* messages: the system prompt when given, then the user prompt *)
Messages(prompt, system_prompt) ==
    (IF system_prompt THEN <<[role |-> "system"]>> ELSE <<>>)
        \o <<[role |-> "user", content |-> prompt]>>

(* The content deltas of a stream: n fragments *)
Fragments(n) == [i \in 1..n |-> [kind |-> "text", content |-> i]]

ErrorFragment(what) == [kind |-> "error", content |-> <<"[Error", what>>]

LLMCall(method, prompt, system_prompt) ==
    [op |-> method, messages |-> Messages(prompt, system_prompt),
     attempt |-> 0, backoff |-> INITIAL_BACKOFF, slept |-> <<>>,
     status |-> "running", raised |-> "none", yielded |-> <<>>,
     response |-> [kind |-> "none"]]

(* logger.warning; await asyncio.sleep(backoff); backoff = min(backoff * 2, MAX_BACKOFF) *)
RateLimitedRetry(call) ==
    [call EXCEPT !.attempt = @ + 1,
                 !.slept = Append(@, call.backoff),
                 !.backoff = Min(call.backoff * 2, MAX_BACKOFF)]

(* One pass of `for attempt in range(MAX_RETRIES)` in generate, and the raise
   after the loop when that pass was the last *)
generate_attempt(call, response) ==
    IF response.kind = "ok"
    THEN [call EXCEPT !.attempt = @ + 1, !.status = "returned",
                      !.yielded = <<[content |-> "text"]>>]
    ELSE IF response.kind = "rate_limited"
    THEN LET next == RateLimitedRetry(call)
         IN IF next.attempt < MAX_RETRIES
            THEN next
            ELSE [next EXCEPT !.status = "raised", !.raised = "rate_limited"]
    ELSE [call EXCEPT !.attempt = @ + 1, !.status = "raised", !.raised = response.kind]

generate_stream_attempt_retry_broken_stream(call, response, n) ==
    IF response.kind = "ok"
    THEN [call EXCEPT !.attempt = @ + 1, !.status = "returned",
                      !.yielded = @ \o Fragments(n)]
    ELSE IF response.kind \in {"rate_limited", "exception"}
    THEN LET next == [RateLimitedRetry(call) EXCEPT !.yielded = @ \o Fragments(n)]
         IN IF next.attempt < MAX_RETRIES
            THEN next
            ELSE [next EXCEPT !.status = "returned",
                              !.yielded = Append(@, ErrorFragment("Rate limit exceeded"))]
    ELSE [call EXCEPT !.attempt = @ + 1, !.status = "returned",
                      !.yielded = Append(@, ErrorFragment(response.code))]

(* One pass of the loop in generate_stream; n fragments are yielded before the
   stream ends or breaks.  Every failure is yielded as an "[Error: ...]" fragment
   and the generator returns. *)
generate_stream_attempt(call, response, n) ==
    IF response.kind = "ok"
    THEN [call EXCEPT !.attempt = @ + 1, !.status = "returned",
                      !.yielded = @ \o Fragments(n)]
    ELSE IF response.kind = "rate_limited"
    THEN LET next == RateLimitedRetry(call)
         IN IF next.attempt < MAX_RETRIES
            THEN next
            ELSE [next EXCEPT !.status = "returned",
                              !.yielded = Append(@, ErrorFragment("Rate limit exceeded"))]
    ELSE IF response.kind = "http_error"
    THEN [call EXCEPT !.attempt = @ + 1, !.status = "returned",
                      !.yielded = Append(@, ErrorFragment(response.code))]
    ELSE [call EXCEPT !.attempt = @ + 1, !.status = "returned",
                      !.yielded = Append(@ \o Fragments(n), ErrorFragment("exception"))]

(* llm.generate(prompt, system_prompt): up to the first request *)
Generate(prompt, system_prompt) ==
    /\ seg.op = "none"
    /\ seg' = LLMCall("generate", prompt, system_prompt)
    /\ UNCHANGED <<indexVars, flow, pc, page, state, loc, gen_log, stage_log, page_states>>

(* llm.generate_stream(prompt, system_prompt): up to the first request *)
GenerateStream(prompt, system_prompt) ==
    /\ seg.op = "none"
    /\ seg' = LLMCall("generate_stream", prompt, system_prompt)
    /\ UNCHANGED <<indexVars, flow, pc, page, state, loc, gen_log, stage_log, page_states>>

GenerateAttempt(response) ==
    /\ seg.op = "generate"
    /\ seg.status = "running"
    /\ seg' = [generate_attempt(seg, response) EXCEPT !.response = response]
    /\ UNCHANGED <<indexVars, flow, pc, page, state, loc, gen_log, stage_log, page_states>>

GenerateStreamAttempt(response, n) ==
    /\ seg.op = "generate_stream"
    /\ seg.status = "running"
    /\ response.kind \in {"rate_limited", "http_error"} => n = 0
    /\ seg' = [generate_stream_attempt(seg, response, n) EXCEPT !.response = response]
    /\ UNCHANGED <<indexVars, flow, pc, page, state, loc, gen_log, stage_log, page_states>>

-----------------------------------------------------------------------------
(* services/retrieval.py: RetrievalService.build_context_from_sections.  Texts are
   counted in characters. *)

ContextMaxTokens == 2000

TruncateMinChars == 100

MaxContextSections == 3

(* len(f"## {heading} (relevance: {score:.2f})\n{text}\n"): the marker, the
   heading, " (relevance: ", the score with two decimals, ")\n", the text, "\n" *)
SectionTextLen(section) == 3 + section.heading + 13 + 4 + 2 + section.text + 1

(* section_tokens = len(section_text) // 4 *)
SectionTokens(chars) == chars \div 4

(* The loop over the sections from section i on; current_length tokens are used
   and context_parts holds the parts appended so far *)
RECURSIVE ContextLoop(_, _, _, _, _)
ContextLoop(sections, max_tokens, i, current_length, context_parts) ==
    IF i > Len(sections) THEN context_parts
    ELSE LET chars == SectionTextLen(sections[i])
             section_tokens == SectionTokens(chars)
             remaining_chars == (max_tokens - current_length) * 4
         IN IF current_length + section_tokens > max_tokens
            THEN IF remaining_chars > TruncateMinChars
                 THEN Append(context_parts,
                             [section |-> i, chars |-> remaining_chars + 3,
                              truncated |-> TRUE])
                 ELSE context_parts
            ELSE ContextLoop(sections, max_tokens, i + 1,
                             current_length + section_tokens,
                             Append(context_parts,
                                    [section |-> i, chars |-> chars, truncated |-> FALSE]))

build_context_from_sections(sections, max_tokens) ==
    IF sections = <<>> THEN <<>>
    ELSE ContextLoop(sections, max_tokens, 1, 0, <<>>)

(* len("\n".join(context_parts)) *)
JoinedLen(context_parts) ==
    IF context_parts = <<>> THEN 0
    ELSE SumSeq([k \in 1..Len(context_parts) |-> context_parts[k].chars])
            + (Len(context_parts) - 1)

(* Retrieved sections: the characters of the heading and of the text *)
HeadingChars == {7}

TextChars == {10, 397, 3970, 7570, 7870, 7974}

ContextSection(h, t) == [heading |-> h, text |-> t]

ContextInputs ==
    UNION {[1..n -> {ContextSection(h, t) : h \in HeadingChars, t \in TextChars}] :
             n \in 0..MaxContextSections}

(* context = retrieval_service.build_context_from_sections(results) *)
BuildContext ==
    /\ seg.op = "sections"
    /\ seg' = [seg EXCEPT !.op = "build_context_from_sections",
                          !.parts = build_context_from_sections(seg.sections,
                                                                seg.max_tokens)]
    /\ UNCHANGED <<indexVars, flow, pc, page, state, loc, gen_log, stage_log, page_states>>

-----------------------------------------------------------------------------
(* agent/graph.py: the events summarize_page_streaming yields, one step of the
   generator per action.  The sections are given by their is_large flags; the
   nodes of Steps 1 to 3 catch their own failures. *)

MaxEventSections == 2

Event(event, i) == [event |-> event, index |-> i]

StatusEvent == Event("status", -1)

EventInputs == UNION {[1..n -> BOOLEAN] : n \in 0..MaxEventSections}

StreamingRun(is_large) ==
    [op |-> "summarize_page_streaming", is_large |-> is_large, at |-> "start",
     i |-> 0, section_summaries |-> 0, events |-> <<>>]

(* Steps 1 to 3: two status events around each of classify_page_node,
   extract_sections_node and embed_section_source_node *)
YieldPrelude ==
    /\ seg.op = "summarize_page_streaming"
    /\ seg.at = "start"
    /\ seg' = [seg EXCEPT
                 !.events = @ \o [k \in 1..6 |-> StatusEvent],
                 !.at = IF Len(seg.is_large) > 0 THEN "section" ELSE "synthesis"]
    /\ UNCHANGED <<indexVars, flow, pc, page, state, loc, gen_log, stage_log, page_states>>

(* The head of the loop of Step 4: the status and section_start of section i *)
YieldSectionStart ==
    /\ seg.op = "summarize_page_streaming"
    /\ seg.at = "section"
    /\ seg' = [seg EXCEPT
                 !.events = @ \o <<StatusEvent, Event("section_start", seg.i)>>,
                 !.at = "tokens"]
    /\ UNCHANGED <<indexVars, flow, pc, page, state, loc, gen_log, stage_log, page_states>>

(* process_section_streaming of a large section: a fact extraction call raises,
   and the exception leaves the generator *)
FactExtractionRaises ==
    /\ seg.op = "summarize_page_streaming"
    /\ seg.at = "tokens"
    /\ seg.is_large[seg.i + 1]
    /\ seg.events[Len(seg.events)].event = "section_start"
    /\ seg' = [seg EXCEPT !.at = "raised"]
    /\ UNCHANGED <<indexVars, flow, pc, page, state, loc, gen_log, stage_log, page_states>>

(* yield {"event": "token", "data": token} of section i *)
YieldSectionToken ==
    /\ seg.op = "summarize_page_streaming"
    /\ seg.at = "tokens"
    /\ Len(SelectSeq(seg.events, LAMBDA e : e = Event("token", seg.i))) < MaxFragments
    /\ seg' = [seg EXCEPT !.events = Append(@, Event("token", seg.i))]
    /\ UNCHANGED <<indexVars, flow, pc, page, state, loc, gen_log, stage_log, page_states>>

(* section_summaries[section.section_id] = section_summary; section_end *)
YieldSectionEnd ==
    /\ seg.op = "summarize_page_streaming"
    /\ seg.at = "tokens"
    /\ seg' = [seg EXCEPT
                 !.events = Append(@, Event("section_end", seg.i)),
                 !.section_summaries = @ + 1,
                 !.i = @ + 1,
                 !.at = IF seg.i + 1 < Len(seg.is_large) THEN "section" ELSE "synthesis"]
    /\ UNCHANGED <<indexVars, flow, pc, page, state, loc, gen_log, stage_log, page_states>>

(* Step 5 with n_tokens tokens of the synthesis, the status "complete" and the
   complete event *)
YieldSynthesisAndComplete(n_tokens) ==
    /\ seg.op = "summarize_page_streaming"
    /\ seg.at = "synthesis"
    /\ seg' = [seg EXCEPT
                 !.events = @ \o (IF seg.section_summaries > 1
                                  THEN <<StatusEvent, Event("synthesis_start", -1)>>
                                          \o [k \in 1..n_tokens |-> Event("token", -1)]
                                          \o <<Event("synthesis_end", -1)>>
                                  ELSE <<>>)
                            \o <<StatusEvent, Event("complete", -1)>>,
                 !.at = "done"]
    /\ UNCHANGED <<indexVars, flow, pc, page, state, loc, gen_log, stage_log, page_states>>

-----------------------------------------------------------------------------
(* Specifications *)

InitBase == InitIndex /\ InitRun /\ InitCache

Init == InitBase /\ seg = NoCall

(* The index specification: the index under its own operations.  The stores and
   the clear act on the document under update, the other documents are what they
   must leave alone; a store that raises changes nothing, whatever its arguments. *)
UpdatedDocs == {1}

Next ==
    \/ \E d \in UpdatedDocs, S \in SUBSET SectionIdSet, v \in Versions, r \in Roles,
           ok \in BOOLEAN :
            /\ ok \/ (S = {} /\ v = 1)
            /\ StoreSections(d, S, v, r, ok)
    \/ \E d \in Docs, r \in Roles, k \in TopKChoices, t \in ThresholdChoices :
            RetrieveSections(d, 1, r, k, t)
    \/ \E d \in Docs : CheckPageIndexed(d)
    \/ \E d \in UpdatedDocs : ClearPageCache(d)

Spec == Init /\ [][Next]_vars

(* The follow-up specification: the index under stores and under the two
   follow-up entry points *)
NextQA ==
    \/ \E d \in Docs, S \in SUBSET SectionIdSet, v \in Versions, r \in Roles :
            StoreSections(d, S, v, r, TRUE)
    \/ \E d \in Docs, q \in Queries, out \in QAOutcomes : HandleFollowup(d, q, out)
    \/ \E d \in Docs, q \in Queries, out \in QAOutcomes : HandleFollowupStreaming(d, q, out)

SpecQA == Init /\ [][NextQA]_vars

(* The chat specification: the index under the chat entry point, whose fallback
   indexes the pages it crawls, and under the cache clear *)
NextChat ==
    \/ \E d \in Docs, has_text \in BOOLEAN, out \in QAOutcomes :
            HandleChatQueryStreaming(d, 1, has_text, out)
    \/ \E d \in Docs, out \in {"ok", "llm_fail"}, crawl_ok \in BOOLEAN,
           retry_ok \in BOOLEAN :
         \E page_links \in ChatPageLinks(d), fails \in {{}} \cup {{i} : i \in 1..max_pages} :
           \E plan \in [PageSet(CrawledDocs(crawl_relevant_pages(page_links, fails)))
                           -> PagePlans] :
            /\ fails \subseteq 1..Len(page_links)
            /\ crawl_ok \/ page_links = <<>>
            /\ HandleChatQueryFallback(d, 1, page_links, fails, plan, crawl_ok, retry_ok, out)
    \/ \E d \in Docs : ClearPageCache(d)

SpecChat == Init /\ [][NextChat]_vars

(* The pipeline specification: one summarization run, in either flow *)
NextPipeline ==
    \/ \E f \in {"graph", "stream"}, d \in Docs, texts \in PageTexts : StartRun(f, d, texts)
    \/ \E ok \in BOOLEAN, page_type \in {"docs", "unknown"} : ClassifyPage(ok, page_type)
    \/ \E ok \in BOOLEAN : ExtractSections(ok)
    \/ \E fail_at \in 0..(NumSectionIds + 4 * NumVersions) : ProcessSection(fail_at)
    \/ \E ok \in BOOLEAN : EmbedSource(ok)
    \/ \E ok \in BOOLEAN : SynthesizePage(ok)
    \/ \E fail_at \in 0..(NumSectionIds + 4 * NumVersions) : StreamSection(fail_at)
    \/ \E ok \in BOOLEAN : StreamSynthesis(ok)

SpecPipeline == Init /\ [][NextPipeline]_vars

(* The cancellation specification: one streaming run that its consumer may leave
   at any of its yields *)
NextCancel ==
    \/ \E d \in Docs, texts \in PageTexts : StartRun("stream", d, texts)
    \/ \E ok \in BOOLEAN, page_type \in {"docs", "unknown"} : ClassifyPage(ok, page_type)
    \/ \E ok \in BOOLEAN : ExtractSections(ok)
    \/ \E ok \in BOOLEAN : EmbedSource(ok)
    \/ \E fail_at \in 0..(NumSectionIds + 4 * NumVersions) : StreamSection(fail_at)
    \/ \E ok \in BOOLEAN : StreamSynthesis(ok)
    \/ CancelStream
    \/ \E n \in 1..(NumSectionIds + 4 * NumVersions) : CancelInSection(n)
    \/ \E ok \in BOOLEAN : CancelAtCompleteStatus(ok)

SpecCancel == Init /\ [][NextCancel]_vars

(* The overlap specification: two invocations of summarize_page or
   summarize_page_streaming for the same page url, on texts of any version, their
   steps interleaved in every order *)
OverlapDoc == CHOOSE d \in Docs : \A e \in Docs : d <= e

OverlapTexts == {[i \in 1..n |-> v] : n \in 1..NumSectionIds, v \in Versions}

InitOverlap ==
    /\ InitBase
    /\ index = PopulatedIndex({})
    /\ seg = IdleRun

NextOverlap ==
    \/ \E f \in {"graph", "stream"}, texts \in OverlapTexts : StartRun(f, OverlapDoc, texts)
    \/ ClassifyPage(TRUE, "docs")
    \/ ExtractSections(TRUE)
    \/ ProcessSection(0)
    \/ \E ok \in BOOLEAN : EmbedSource(ok)
    \/ SynthesizePage(TRUE)
    \/ StreamSection(0)
    \/ StreamSynthesis(TRUE)
    \/ SwitchRun

SpecOverlap == InitOverlap /\ [][NextOverlap]_vars

(* The graph specification: one run of the summarization graph on a document of
   no section or of sections of one size, each call of which may fail.  The graph
   runtime runs the next node whenever there is one, hence the weak fairness. *)
NextGraph ==
    \/ \E texts \in OverlapTexts \cup {<<>>} : StartRun("graph", OverlapDoc, texts)
    \/ \E ok \in BOOLEAN : ClassifyPage(ok, "unknown")
    \/ \E ok \in BOOLEAN : ExtractSections(ok)
    \/ \E fail_at \in 0..(NumSectionIds + 4 * NumVersions) : ProcessSection(fail_at)
    \/ \E ok \in BOOLEAN : EmbedSource(ok)
    \/ \E ok \in BOOLEAN : SynthesizePage(ok)

SpecGraph == Init /\ [][NextGraph]_vars /\ WF_vars(NextGraph)

(* The segmentation specification: the extractor run on one document text *)
InitSegment ==
    /\ InitBase
    /\ index = PopulatedIndex({})
    /\ \E doc \in SegDocs, d \in Docs :
          seg = [op |-> "text", doc |-> doc, page_url |-> d, sections |-> <<>>,
                 again |-> <<>>]

NextSegment ==
    \/ SegmentDocument
    \/ SegmentAgain

SpecSegment == InitSegment /\ [][NextSegment]_vars

(* The splitting specification: one section split into chunks and processed *)
InitSplit ==
    /\ InitBase
    /\ index = PopulatedIndex({})
    /\ \E sentences \in SentenceLists :
          seg = [op |-> "section", section |-> SectionOfText(PunctuatedText(sentences)),
                 chunks |-> <<>>, calls |-> <<>>, summary |-> NoText]

NextSplit ==
    \/ SplitSection
    \/ ProcessOneSection

SpecSplit == InitSplit /\ [][NextSplit]_vars

(* The crawl specification: the link crawler run on one page text *)
InitCrawl ==
    /\ InitBase
    /\ index = PopulatedIndex({})
    /\ \E page_links \in CrawlInputs :
          seg = [op |-> "page", page_links |-> page_links, fails |-> {},
                 crawl |-> [links |-> <<>>, scored |-> <<>>, requested |-> <<>>,
                            pages |-> <<>>]]

NextCrawl ==
    \/ \E fails \in SUBSET (1..max_pages) : CrawlRelevantPages(fails)
    \/ ExtractLinks

SpecCrawl == InitCrawl /\ [][NextCrawl]_vars

(* The generative service specification: one call of generate or generate_stream
   from its start to its end, each request answered in any of the possible ways. *)
InitLLM ==
    /\ InitBase
    /\ index = PopulatedIndex({})
    /\ seg = NoCall

NextLLM ==
    \/ \E prompt \in Docs, system_prompt \in BOOLEAN : Generate(prompt, system_prompt)
    \/ \E prompt \in Docs, system_prompt \in BOOLEAN : GenerateStream(prompt, system_prompt)
    \/ \E response \in Responses : GenerateAttempt(response)
    \/ \E response \in Responses, n \in 0..MaxFragments : GenerateStreamAttempt(response, n)

SpecLLM == InitLLM /\ [][NextLLM]_vars

(* The context specification: build_context_from_sections on one result list *)
InitContext ==
    /\ InitBase
    /\ index = PopulatedIndex({})
    /\ \E sections \in ContextInputs :
          seg = [op |-> "sections", sections |-> sections,
                 max_tokens |-> ContextMaxTokens, parts |-> <<>>]

NextContext == BuildContext

SpecContext == InitContext /\ [][NextContext]_vars

(* The event specification: one streaming run, yield by yield *)
InitEvents ==
    /\ InitBase
    /\ index = PopulatedIndex({})
    /\ \E is_large \in EventInputs : seg = StreamingRun(is_large)

NextEvents ==
    \/ YieldPrelude
    \/ YieldSectionStart
    \/ FactExtractionRaises
    \/ YieldSectionToken
    \/ YieldSectionEnd
    \/ \E n_tokens \in 0..MaxFragments : YieldSynthesisAndComplete(n_tokens)

SpecEvents == InitEvents /\ [][NextEvents]_vars

-----------------------------------------------------------------------------
(* Properties of the vector index: role isolation, upsert, search, delete *)

(* C1, first part: a search under role r returns only records that were stored
   under role r for the searched document, with the content stored under r *)
C1_OnlyQueriedRole ==
    lastOp.op = "retrieve_sections" =>
        \A i \in 1..Len(results) :
            LET key == <<lastOp.doc, results[i].section_id, lastOp.role>>
            IN /\ results[i].embedding_type = lastOp.role
               /\ results[i].page_url = lastOp.doc
               /\ lastStored[key] # NoSection
               /\ results[i].text = lastStored[key].text
               /\ results[i].summary_text = lastStored[key].summary_text

(* C1, second part: a store under one role leaves every record of the other role
   as it was *)
C1_StoreKeepsOtherRole ==
    lastOp'.op = "store_sections" =>
        \A d \in Docs :
            {v \in index'[d] : v.metadata.embedding_type # lastOp'.role}
                = {v \in index[d] : v.metadata.embedding_type # lastOp'.role}

(* C1: after any sequence of stores under the two roles, a search under role r
   returns only the records stored under r for that document, never a record of
   the other role, also when both roles hold the same section id; and a store
   under one role never overwrites the record of the other role *)
C1_RoleIsolation == []C1_OnlyQueriedRole /\ [][C1_StoreKeepsOtherRole]_vars

(* A search under one role returned a section that the other role holds too,
   with another content *)
C1_Witness ==
    /\ lastOp.op = "retrieve_sections"
    /\ \E i \in 1..Len(results) : \E r \in Roles \ {lastOp.role} :
          /\ lastStored[<<lastOp.doc, results[i].section_id, r>>] # NoSection
          /\ lastStored[<<lastOp.doc, results[i].section_id, r>>].text # results[i].text

(* C2: every question-answering entry point searches with the source filter: no
   record stored under the summary role is in the context that grounds an answer *)
C2_SourceOnlyGrounding ==
    answer.via \in {"handle_followup", "handle_followup_streaming",
                    "handle_chat_query_streaming"} =>
        \A i \in 1..Len(answer.context) :
            \A v \in index[generate_namespace(answer.context[i].page_url)] :
                v.id = answer.context[i].match_id => v.metadata.embedding_type = "source"

(* C3: storing the same (document, section id, role) twice, other stores
   interleaved, leaves exactly one record for the triple, carrying the content of
   the latest store, and a search returns it once with that content *)
C3_UpsertOverwrites ==
    /\ \A k \in StoreKeys :
          lastStored[k] # NoSection =>
              LET recs == {v \in index[generate_namespace(k[1])] :
                              /\ v.metadata.section_id = k[2]
                              /\ v.metadata.embedding_type = k[3]}
              IN /\ Cardinality(recs) = 1
                 /\ \A v \in recs :
                       /\ v.metadata.section_text = lastStored[k].text
                       /\ v.metadata.summary_text = lastStored[k].summary_text
                       /\ v.values.of \in {lastStored[k].text, lastStored[k].summary_text}
    /\ lastOp.op = "retrieve_sections" =>
          \A i, j \in 1..Len(results) :
              /\ results[i].section_id = results[j].section_id => i = j
              /\ lastStored[<<lastOp.doc, results[i].section_id, lastOp.role>>] # NoSection
                    => results[i].text
                          = lastStored[<<lastOp.doc, results[i].section_id, lastOp.role>>].text

(* A store has just replaced the earlier content of a triple, while another
   triple of the same document keeps an older content *)
C3_Witness ==
    /\ lastOp.op = "store_sections"
    /\ lastOp.ok
    /\ lastOp.overwritten # {}
    /\ \E k \in StoreKeys :
          /\ k[1] = lastOp.doc
          /\ lastStored[k] # NoSection
          /\ \E sid \in lastOp.overwritten :
                lastStored[k].text.ver # lastStored[<<lastOp.doc, sid, lastOp.role>>].text.ver

(* C4: a search returns at most top_k matches, each with a score at or above
   min_score, of the queried document, carrying its section id, its full text and
   its score, the list ordered by descending score *)
C4_SearchContract ==
    lastOp.op = "retrieve_sections" =>
        LET top_k == OrDefault(lastOp.top_k, top_k_retrieval)
            min_score == OrDefault(lastOp.threshold, similarity_threshold)
        IN /\ Len(results) <= top_k
           /\ \A i \in 1..Len(results) :
                 /\ results[i].score >= min_score
                 /\ results[i].page_url = lastOp.doc
                 /\ \E v \in index[generate_namespace(lastOp.doc)] :
                       /\ v.metadata.section_id = results[i].section_id
                       /\ v.metadata.embedding_type = lastOp.role
                       /\ results[i].text = v.metadata.section_text
                       /\ results[i].score = Similarity(embed_query(lastOp.query), v.values)
           /\ \A i, j \in 1..Len(results) : i < j => results[i].score >= results[j].score

(* A search returned two matches of different scores, one with a text longer
   than the metadata preview *)
C4_Witness ==
    /\ lastOp.op = "retrieve_sections"
    /\ Len(results) = 2
    /\ results[1].score > results[2].score
    /\ \E i \in 1..2 : results[i].text.len > MetadataTextLimit

(* C5, first part: right after the delete of a document, exists is false for it
   and every search for it returns nothing *)
C5_DeletedIsGone ==
    lastOp.op = "clear_page_cache" =>
        /\ ~check_page_exists(index, lastOp.doc)
        /\ \A q \in Queries, r \in Roles, k \in TopKChoices, t \in ThresholdChoices :
              retrieve_sections(index, lastOp.doc, q, r, k, t) = {<<>>}
        /\ \A q \in Queries : retrieve_relevant_chunks(index, lastOp.doc, q, None, None) = {<<>>}

(* C5, second part: the delete of a document leaves the records of every other
   document unchanged *)
C5_DeleteKeepsOthers ==
    lastOp'.op = "clear_page_cache" =>
        \A d \in Docs \ {lastOp'.doc} : index'[d] = index[d]

(* C5: delete(document) removes every record of the document under both roles, so
   that right afterwards exists is false and any search for it returns nothing,
   and the records of every other document are unchanged *)
C5_DeleteDocument == []C5_DeletedIsGone /\ [][C5_DeleteKeepsOthers]_vars

(* A delete has removed records of both roles while another document holds records *)
C5_Witness ==
    /\ lastOp.op = "clear_page_cache"
    /\ lastOp.removed = Roles
    /\ \E d \in Docs \ {lastOp.doc} : index[d] # {}

-----------------------------------------------------------------------------
(* Properties of the summarization run *)

(* C6: in both flows, when a generative call made for a section fails, the entry
   of the section in the summary map is the placeholder naming its heading, the
   run goes on with the next section, and the run is not aborted *)
C6_SectionFailureContained ==
    /\ pc # "aborted"
    /\ \A i \in 1..(IF pc = "idle" THEN 0 ELSE Len(state.sections)) :
          LET section == state.sections[i]
              map == IF flow = "stream" THEN loc.section_summaries
                     ELSE state.section_summaries
          IN (\E k \in 1..Len(gen_log) :
                 /\ gen_log[k].section = section.section_id
                 /\ gen_log[k].purpose \in {"summary_direct", "fact_extraction",
                                            "summary_from_facts"}
                 /\ ~gen_log[k].ok)
             => \E j \in 1..Len(map) :
                    map[j] = <<section.section_id, ErrorPlaceholder(section)>>

(* C7: when one fact extraction call of a large section of several chunks fails,
   the section still gets a summary made from the facts of the chunks whose calls
   succeeded, in chunk order *)
C7_FailedChunkSkipped ==
    \A i \in 1..(IF pc = "idle" THEN 0 ELSE Len(state.sections)) :
        LET section == state.sections[i]
            chunks == _split_section_into_chunks(section)
            map == IF flow = "stream" THEN loc.section_summaries
                   ELSE state.section_summaries
            succeeded == {c \in 1..Len(chunks) :
                            \E k \in 1..Len(gen_log) :
                                /\ gen_log[k].section = section.section_id
                                /\ gen_log[k].purpose = "fact_extraction"
                                /\ gen_log[k].chunk = c
                                /\ gen_log[k].ok}
            failed == {c \in 1..Len(chunks) :
                            \E k \in 1..Len(gen_log) :
                                /\ gen_log[k].section = section.section_id
                                /\ gen_log[k].purpose = "fact_extraction"
                                /\ gen_log[k].chunk = c
                                /\ ~gen_log[k].ok}
        IN (section.is_large /\ Len(chunks) >= 2 /\ failed # {})
           => \E j \in 1..Len(map) :
                  /\ map[j][1] = section.section_id
                  /\ map[j][2].kind = "summary"
                  /\ map[j][2].from = "facts"
                  /\ \A f \in 1..Len(map[j][2].facts) :
                        \E c \in succeeded : map[j][2].facts[f] = FactsOf(section, chunks[c])
                  /\ \A f, g \in 1..Len(map[j][2].facts) :
                        f < g => map[j][2].facts[f][2] < map[j][2].facts[g][2]

(* C8: synthesis is a barrier: when the synthesis step starts, the section cursor
   equals the number of sections and the summary map holds one entry for every
   section *)
C8_SynthesisBarrier ==
    pc \in {"synthesize", "stream_synthesis"} =>
        /\ (IF flow = "graph" THEN state.current_section_index ELSE loc.i)
              = Len(state.sections)
        /\ Len(state.section_summaries) = Len(state.sections)
        /\ \A i \in 1..Len(state.sections) :
              state.section_summaries[i][1] = state.sections[i].section_id

(* Synthesis is about to start on several sections, one of them failed *)
C8_Witness ==
    /\ pc \in {"synthesize", "stream_synthesis"}
    /\ Len(state.sections) >= 2
    /\ \E i \in 1..Len(state.section_summaries) :
          state.section_summaries[i][2].kind # "summary"

(* C9: the stages of a run occur in the order segmentation, the loop over all
   sections, source indexing, synthesis, in both flows: source indexing never
   happens before the section loop has finished *)
C9_StageOrder ==
    LET rank(stage) == CASE stage = "classification" -> 0
                         [] stage = "segmentation" -> 1
                         [] stage = "section_processing" -> 2
                         [] stage = "source_indexing" -> 3
                         [] stage = "synthesis" -> 4
    IN \A i, j \in 1..Len(stage_log) :
          i < j => rank(stage_log[i]) <= rank(stage_log[j])

(* C10: with exactly one entry in the summary map the page digest is that summary
   verbatim and no synthesis call is issued; with two or more entries exactly one
   synthesis call is issued, on the summaries in the order of the sections *)
C10_SingleSummaryVerbatim ==
    pc = "done" =>
        LET calls == {k \in 1..Len(gen_log) : gen_log[k].purpose = "page_synthesis"}
        IN /\ Len(state.section_summaries) = 1 =>
                 /\ state.page_summary = state.section_summaries[1][2]
                 /\ calls = {}
           /\ Len(state.section_summaries) >= 2 =>
                 /\ Cardinality(calls) = 1
                 /\ \A k \in calls :
                       /\ Len(gen_log[k].input) = Len(state.sections)
                       /\ \A i \in 1..Len(state.sections) :
                             /\ gen_log[k].input[i][1] = state.sections[i].section_id
                             /\ gen_log[k].input[i][2]
                                   \in {SectionSummary(state.sections[i]),
                                        ErrorPlaceholder(state.sections[i]),
                                        StreamErrorText}

(* A run of a page of one section is complete, its digest the summary of the section *)
C10_Witness ==
    /\ pc = "done"
    /\ Len(state.section_summaries) = 1
    /\ state.page_summary = SectionSummary(state.sections[1])

(* C11: when the synthesis call fails, the page digest is the concatenation of
   all section summaries, in section order, with the delimiter between them, in
   the graph flow and in the streaming flow *)
C11_SynthesisFallback ==
    (/\ pc = "done"
     /\ \E k \in 1..Len(gen_log) :
           gen_log[k].purpose = "page_synthesis" /\ ~gen_log[k].ok)
    => /\ state.page_summary = JoinedSummaries(state.section_summaries)
       /\ Len(state.page_summary.of) = Len(state.sections)
       /\ \A i \in 1..Len(state.sections) :
             state.section_summaries[i][1] = state.sections[i].section_id

(* C12, first part: in every state of a run, and in every cached state, a section
   is large exactly when its token estimate exceeds the small threshold *)
C12_LargeIffOverThreshold ==
    /\ pc # "idle" =>
          \A i \in 1..Len(state.sections) :
              /\ state.sections[i].is_large
                    <=> state.sections[i].token_count > section_small_threshold
              /\ state.sections[i].token_count = estimate_tokens(state.sections[i].raw_text)
    /\ \A d \in Docs :
          page_states[d] # NoState =>
              \A i \in 1..Len(page_states[d].sections) :
                  page_states[d].sections[i].is_large
                      <=> page_states[d].sections[i].token_count > section_small_threshold

(* C12, second part: once segmentation has set them, no step changes the flag or
   the token estimate of a section *)
C12_FlagNeverChanges ==
    (pc \notin {"idle", "classify", "extract"}) =>
        /\ Len(state'.sections) = Len(state.sections)
        /\ \A i \in 1..Len(state.sections) :
              /\ state'.sections[i].is_large = state.sections[i].is_large
              /\ state'.sections[i].token_count = state.sections[i].token_count

(* C12: is_large is true exactly when the token estimate of the section exceeds
   the small threshold; it is set at segmentation and no later stage changes it
   or the token estimate *)
C12_IsLargeStable == []C12_LargeIffOverThreshold /\ [][C12_FlagNeverChanges]_vars

(* A run is complete whose large section was summarized and embedded *)
C12_Witness ==
    /\ pc = "done"
    /\ \E i \in 1..Len(state.sections) :
          /\ state.sections[i].is_large
          /\ state.sections[i].is_summarized
          /\ state.sections[i].source_embedded


-----------------------------------------------------------------------------
(* C13: the sections extract_sections returns are in document order, their start
   positions strictly increasing; each section_id is determined by the page url,
   the heading text and the ordinal of the section among those emitted, and by
   nothing else; no two sections of one document share a section_id; and
   segmenting the same text again yields the same section_ids in the same order. *)
Segmented == seg.op \in {"extract_sections", "extract_sections_again"}

C13_OrderedStableIds ==
    Segmented =>
        /\ \A i, j \in 1..Len(seg.sections) :
              i < j => /\ seg.sections[i].start_pos < seg.sections[j].start_pos
                       /\ seg.sections[i].section_id # seg.sections[j].section_id
        /\ \A i \in 1..Len(seg.sections) :
              seg.sections[i].section_id
                  = <<seg.page_url, "section", i - 1, seg.sections[i].heading>>
        /\ seg.op = "extract_sections_again" =>
              /\ Len(seg.again) = Len(seg.sections)
              /\ \A i \in 1..Len(seg.sections) :
                    seg.again[i].section_id = seg.sections[i].section_id

(* A document segmented twice into an introduction and several sections, two of
   them under the same heading text, one heading having been skipped *)
C13_Witness ==
    /\ seg.op = "extract_sections_again"
    /\ Len(seg.sections) >= 3
    /\ Len(seg.sections) < Len(seg.doc.heads)
    /\ seg.sections[1].heading = "Introduction"
    /\ \E i, j \in 2..Len(seg.sections) :
          i < j /\ seg.sections[i].heading = seg.sections[j].heading


(* C14: a non-empty document without any heading marker is segmented into exactly
   one section, headed "Content", whose raw text is the whole document text; and
   the whole-document "Content" section is emitted in that case only, never for a
   document that contains heading markers. *)
IsWholeDocumentSection(s) ==
    /\ s.heading = "Content"
    /\ s.start_pos = 0
    /\ s.end_pos = TextLen(seg.doc)

C14_ContentOnlyWithoutHeadings ==
    Segmented =>
        /\ (seg.doc.heads = <<>> /\ StrippedText(seg.doc).len > 0) =>
              /\ Len(seg.sections) = 1
              /\ IsWholeDocumentSection(seg.sections[1])
              /\ seg.sections[1].raw_text = StrippedText(seg.doc)
        /\ (\E i \in 1..Len(seg.sections) : IsWholeDocumentSection(seg.sections[i]))
              => seg.doc.heads = <<>>


(* C16: every section extract_sections emits has a raw text of at least the minimum
   number of characters, whichever way it was produced: as the introduction, under
   a heading, or as the whole-document "Content" section. *)
C16_MinimumSectionLength ==
    Segmented =>
        \A i \in 1..Len(seg.sections) : seg.sections[i].raw_text.len >= SectionMinChars


(* C17: extract_sections never returns more than max_sections_per_page sections;
   when the document holds more, it returns exactly the first
   max_sections_per_page of them, in document order. *)
C17_SectionLimit ==
    Segmented =>
        LET found == FoundSections(seg.doc, seg.page_url)
        IN /\ Len(seg.sections) <= max_sections_per_page
           /\ Len(seg.sections) = Min(Len(found), max_sections_per_page)
           /\ \A i \in 1..Len(seg.sections) : seg.sections[i] = found[i]

(* A document with more sections than the limit, segmented *)
C17_Witness ==
    /\ Segmented
    /\ Len(FoundSections(seg.doc, seg.page_url)) > max_sections_per_page
    /\ Len(seg.sections) = max_sections_per_page
    /\ seg.sections[1].heading = "Introduction"


(* C15: for an empty document segmentation returns the empty list, and the run
   reaches its end with no error recorded, no section processed, no generative
   summary call issued, and no claim that embeddings were stored: embeddings_saved
   is set only if the index holds vectors of the page. *)
EmptyDocumentRun ==
    /\ pc \in {"process_section", "embed", "synthesize", "stream_section",
               "stream_synthesis", "done", "aborted"}
    /\ page.texts = <<>>
    /\ "segmentation" \in {stage_log[k] : k \in 1..Len(stage_log)}
    /\ state.error = NoError

C15_EmptyDocument ==
    EmptyDocumentRun =>
        /\ state.sections = <<>>
        /\ pc # "aborted"
        /\ state.section_summaries = <<>>
        /\ \A k \in 1..Len(gen_log) : gen_log[k].purpose = "classification"
        /\ state.embeddings_saved => check_page_exists(index, state.page_url)


(* C18: the chunk splitter is greedy.  Every non-blank sentence lies whole, in the
   order of the text, in exactly one chunk; a chunk is closed exactly when adding
   the next sentence would exceed chunk_max_tokens; every chunk of more than one
   sentence is within chunk_max_tokens; a single sentence larger than
   chunk_max_tokens is a chunk of its own; and the token count of a chunk is the
   sum of the estimates of its sentences. *)
SentenceTokens(sentence) == (13 * sentence) \div 10

RECURSIVE Flatten(_)
Flatten(ss) == IF ss = <<>> THEN <<>> ELSE Head(ss) \o Flatten(Tail(ss))

HasSplit == seg.op \in {"split", "processed"}

FactCalls == SelectSeq(seg.calls, LAMBDA call : call.purpose = "fact_extraction")

C20_ChunkCountBounded ==
    (HasSplit /\ seg.section.is_large) =>
        /\ Len(seg.chunks) <= max_chunks_per_page
        /\ seg.op = "processed" => Len(FactCalls) <= max_chunks_per_page


(* C19: the strategy for a section is chosen by its is_large flag alone.  A small
   section is summarized by exactly one generative call over its raw text, with no
   chunking.  A large section is split into chunks, one fact extraction call is
   issued per chunk, the facts are put together in chunk order, and exactly one
   summary call is issued, over the merged facts and never over the raw text.  A
   large section whose estimate exceeds chunk_max_tokens is split into at least
   2 chunks. *)
C19_SmallDirect ==
    (seg.op = "processed" /\ ~seg.section.is_large) =>
        /\ Len(seg.calls) = 1
        /\ seg.calls[1].purpose = "summary_direct"
        /\ seg.calls[1].input = <<seg.section.raw_text>>
        /\ seg.summary = DirectSummary(seg.section)

C19_LargeThroughFacts ==
    (seg.op = "processed" /\ seg.section.is_large) =>
        LET n == Len(seg.chunks)
        IN /\ Len(seg.calls) = n + 1
           /\ \A c \in 1..n :
                 /\ seg.calls[c].purpose = "fact_extraction"
                 /\ seg.calls[c].input = seg.chunks[c]
           /\ seg.calls[n + 1].purpose = "summary_from_facts"
           /\ seg.calls[n + 1].input = [c \in 1..n |-> FactsOf(seg.section, seg.chunks[c])]
           /\ seg.calls[n + 1].input # <<seg.section.raw_text>>
           /\ seg.summary = FactsSummary(seg.section, seg.calls[n + 1].input)

C19_OverBudgetSplit ==
    (HasSplit /\ seg.section.is_large /\ seg.section.token_count > chunk_max_tokens)
        => Len(seg.chunks) >= 2

C19_SplitWhenSentencesAllow ==
    (HasSplit /\ seg.section.is_large) =>
        LET sentences == SelectSeq(Sentences(seg.section.raw_text), LAMBDA w : w # 0)
            total == SumSeq([k \in 1..Len(sentences) |-> SentenceTokens(sentences[k])])
        IN /\ Len(seg.chunks) >= 1
           /\ Len(seg.chunks) >= 2 <=> (Len(sentences) > 1 /\ total > chunk_max_tokens)

-----------------------------------------------------------------------------
(* C21: whenever the retrieval of a question-answering call under role source
   returns no result, the link-following fallback is evaluated before the "no
   relevant content" answer is given, whether or not the caller supplied the page
   text: an answer "not_found" is only ever given by a call that ran the fallback. *)
C21_FallbackBeforeNotFound ==
    answer.status = "not_found" => lastOp.op = "handle_chat_query_fallback"


(* C25: every link extract_links returns, and so every url the fallback may
   request, has the host of the base document, whether the link is written as an
   HTML anchor or as a markdown link, and whatever the scheme of its href. *)
C25_SameOriginLinks ==
    seg.op \in {"extract_links", "crawl_relevant_pages"} =>
        /\ \A i \in 1..Len(seg.crawl.links) : seg.crawl.links[i].url.netloc = BaseHost
        /\ \A i \in 1..Len(seg.crawl.requested) : seg.crawl.requested[i].netloc = BaseHost


(* C23: the fallback requests at most max_pages links, all of them with a score
   above zero and none of them scoring lower than a link it does not request; the
   fetches are independent: whichever of them fail or time out, every page whose
   fetch succeeded is returned, in the order of the requests, and the crawl itself
   does not fail. *)
Crawled == seg.op = "crawl_relevant_pages"

PositiveLinks(links) == SelectSeq(links, LAMBDA l : RelevanceScore(l) > 0)

C23_BoundedIndependentFetches ==
    Crawled =>
        LET scored == seg.crawl.scored
            requested == seg.crawl.requested
            n == Len(requested)
            succeeded == SelectSeq([i \in 1..n |-> i], LAMBDA i : i \notin seg.fails)
        IN /\ n <= max_pages
           /\ n = Min(max_pages, Len(PositiveLinks(seg.crawl.links)))
           /\ Len(scored) = Len(PositiveLinks(seg.crawl.links))
           /\ \A k \in 1..Len(PositiveLinks(seg.crawl.links)) :
                 \E j \in 1..Len(scored) :
                    /\ scored[j].url = PositiveLinks(seg.crawl.links)[k].url
                    /\ scored[j].relevance_score
                          = RelevanceScore(PositiveLinks(seg.crawl.links)[k])
           /\ \A i \in 1..n :
                 /\ requested[i] = scored[i].url
                 /\ scored[i].relevance_score > 0
                 /\ \A j \in (n + 1)..Len(scored) :
                       scored[j].relevance_score <= scored[i].relevance_score
           /\ Len(seg.crawl.pages) = Len(succeeded)
           /\ \A k \in 1..Len(succeeded) :
                 seg.crawl.pages[k].url = requested[succeeded[k]]

(* More scoring links than max_pages, of different scores; one of the three
   fetches fails and the two others are returned *)
C23_Witness ==
    /\ Crawled
    /\ Len(seg.crawl.scored) > max_pages
    /\ Len(seg.crawl.requested) = max_pages
    /\ seg.fails = {2}
    /\ Len(seg.crawl.pages) = 2
    /\ seg.crawl.scored[1].relevance_score
          > seg.crawl.scored[Len(seg.crawl.scored)].relevance_score


(* C22: when no link of the page scores above zero for the query, the fallback
   returns the empty list at once: no fetch is issued, nothing is indexed or
   cached, and the answer of the query is the "no relevant content" answer, not an
   error. *)
NoScoringLink(op) ==
    /\ op.op = "handle_chat_query_fallback"
    /\ op.ok
    /\ op.page_links # <<>>
    /\ PositiveLinks(extract_links(op.page_links)) = <<>>

C22_NoFetchAnswered ==
    NoScoringLink(lastOp) =>
        /\ lastOp.requested = <<>>
        /\ lastOp.crawled = <<>>
        /\ results = <<>>
        /\ answer = Answer("handle_chat_query_streaming", "not_found", <<>>)

C22_NothingIndexed ==
    (nmut' # nmut /\ NoScoringLink(lastOp')) =>
        /\ index' = index
        /\ page_states' = page_states
        /\ lastStored' = lastStored

C22_NoScoringLinkNoFetch == []C22_NoFetchAnswered /\ [][C22_NothingIndexed]_vars

(* A chat query on a page whose links share no word with the query *)
C22_Witness ==
    /\ NoScoringLink(lastOp)
    /\ Len(extract_links(lastOp.page_links)) >= 1
    /\ answer.status = "not_found"


(* C24: after the fallback has indexed the pages it crawled, retrieval is repeated
   under role source on each crawled page, and the results are merged, sorted by
   score descending and capped to top_k_retrieval; if the merged result is empty,
   or the crawl, the indexing or the second retrieval fails, the answer is the "no
   relevant content" answer and never a raised error. *)
FallbackRan == lastOp.op = "handle_chat_query_fallback"

(* What the retrieval on the crawled page at position i returns *)
PageResults(i) ==
    CHOOSE r \in retrieve_sections(index, lastOp.crawled[i], lastOp.query, "source", 3, None) :
        TRUE

CandidateCount ==
    SumSeq([i \in 1..Len(lastOp.crawled) |-> Len(PageResults(i))])

C24_MergedRetrieval ==
    FallbackRan =>
        /\ \A k \in 1..Len(results) :
              /\ results[k].embedding_type = "source"
              /\ \E i \in 1..Len(lastOp.crawled) :
                    /\ results[k].source_url = lastOp.crawled[i]
                    /\ results[k].page_url = lastOp.crawled[i]
                    /\ \E j \in 1..Len(PageResults(i)) :
                          PageResults(i)[j].match_id = results[k].match_id
              /\ k < Len(results) => results[k].score >= results[k + 1].score
        /\ Len(results) <= top_k_retrieval
        /\ (lastOp.ok /\ lastOp.retry_ok) =>
              /\ Len(results) = Min(top_k_retrieval, CandidateCount)
              /\ \A i \in 1..Len(lastOp.crawled) : \A j \in 1..Len(PageResults(i)) :
                    \/ Len(results) < top_k_retrieval
                    \/ PageResults(i)[j].score >= results[Len(results)].score
                    \/ \A k \in 1..Len(results) : results[k].score >= PageResults(i)[j].score
        /\ ~(lastOp.ok /\ lastOp.retry_ok) => results = <<>>
        /\ results = <<>> => answer = Answer("handle_chat_query_streaming", "not_found", <<>>)
        /\ results # <<>> => /\ answer.status \in {"answered", "error_text"}
                             /\ answer.context = results
        /\ answer.status # "error"

(* The crawled pages yield more results than top_k_retrieval, of different scores *)
C24_Witness ==
    /\ FallbackRan
    /\ CandidateCount > top_k_retrieval
    /\ Len(results) = top_k_retrieval
    /\ results[1].score > results[Len(results)].score
    /\ answer.status = "answered"


(* C26: a generative call that is rate limited is retried with exponentially
   growing, capped backoff for at most MAX_RETRIES attempts; after the last
   attempt the failure is surfaced to the caller as a failure of the call, for
   generate and generate_stream alike; an error other than a rate limit is
   surfaced without another attempt; the number of attempts is bounded, so the
   call ends. *)
RECURSIVE BackoffAt(_)
BackoffAt(i) == IF i = 1 THEN INITIAL_BACKOFF ELSE Min(BackoffAt(i - 1) * 2, MAX_BACKOFF)

LLMCalled == seg.op \in {"generate", "generate_stream"}

C26_RetryThenFailure ==
    LLMCalled =>
        /\ seg.attempt <= MAX_RETRIES
        /\ Len(seg.slept) <= MAX_RETRIES
        /\ \A i \in 1..Len(seg.slept) : seg.slept[i] = BackoffAt(i)
        /\ seg.status = "running" => /\ seg.attempt = Len(seg.slept)
                                     /\ seg.attempt < MAX_RETRIES
        /\ seg.status # "running" =>
              /\ seg.response.kind = "ok" <=> seg.status = "returned"
              /\ seg.response.kind # "ok" <=> seg.status = "raised"
              /\ seg.response.kind = "rate_limited" => seg.attempt = MAX_RETRIES
              /\ seg.response.kind # "rate_limited" => seg.attempt = Len(seg.slept) + 1


(* C27: when the embedding or the store call fails during source indexing the
   failure is soft: embeddings_saved is false and no status claims that
   embeddings were saved, no section is marked source-indexed, the run is not
   ended by the failure, and a run that reaches its end returns a summary for
   every section and the digest, and caches them. *)
EmbedFailedRun ==
    /\ "source_indexing" \in {stage_log[k] : k \in 1..Len(stage_log)}
    /\ lastOp.op = "embed_section_source"
    /\ ~lastOp.ok

SoftFailureKeepsRun ==
    /\ ~state.embeddings_saved
    /\ \A i \in 1..Len(state.sections) : ~state.sections[i].source_embedded
    /\ stage_log[Len(stage_log)] = "source_indexing" => pc # "aborted"
    /\ pc = "done" =>
          /\ Len(state.section_summaries) = Len(state.sections)
          /\ state.sections # <<>> => state.final_summary # <<>>
          /\ page_states[state.page_url] = state

C27_SoftEmbeddingFailure ==
    EmbedFailedRun =>
        /\ SoftFailureKeepsRun
        /\ lastOp.event # "embeddings saved"


(* C28: if a streaming summarization run is cancelled at any point before its
   completion event, nothing of the run is persisted: no step of a streaming run
   other than the one that yields the completion event changes the cached state
   of a document, so the cached state of a cancelled run is exactly what it was
   before the run started. *)
C28_CancelKeepsCache ==
    [][(flow' = "stream" /\ pc' # "done") => page_states' = page_states]_vars


(* C29: two summarization invocations for the same document that overlap in time
   never work on the same pipeline state: each runs on its own fresh state, so in
   every interleaving the sections, the section cursor, the summary map and the
   digest of an invocation come from its own text alone, and the cached state of
   the document is the whole final state of one of the two invocations. *)
RunOwnState(r) ==
    r.pc # "idle" =>
        LET own == ExtractedSections(r.page.texts)
        IN /\ r.state.page_url = r.page.url
           /\ \/ r.state.sections = <<>>
              \/ /\ Len(r.state.sections) = Len(own)
                 /\ \A i \in 1..Len(own) :
                       /\ r.state.sections[i].section_id = own[i].section_id
                       /\ r.state.sections[i].raw_text = own[i].raw_text
                       /\ r.state.sections[i].summary_text
                             \in {NoText, SectionSummary(own[i])}
           /\ IF r.flow = "graph"
              THEN r.state.current_section_index = Len(r.state.section_summaries)
              ELSE r.loc.i = Len(r.loc.section_summaries)
           /\ \A map \in {r.state.section_summaries, r.loc.section_summaries} :
                 /\ Len(map) <= Len(r.state.sections)
                 /\ \A j \in 1..Len(map) :
                       map[j] = <<own[j].section_id, SectionSummary(own[j])>>
           /\ r.state.final_summary
                 \in {<<>>, synthesize_page_node(r.state, TRUE).final_summary,
                      StreamPageSummary(r.state, TRUE)}

CachedIsOneRun(d) ==
    \/ page_states[d] = NoState
    \/ \E r \in {RunContext, seg} :
          /\ r.pc = "done"
          /\ r.page.url = d
          /\ page_states[d] = r.state

ContextBuilt == seg.op = "build_context_from_sections"

(* The tokens of the sections before section i *)
TokensBefore(i) ==
    SumSeq([k \in 1..(i - 1) |-> SectionTokens(SectionTextLen(seg.sections[k]))])

(* The sections that would exceed the budget when appended whole *)
Exceeding ==
    {i \in 1..Len(seg.sections) :
        TokensBefore(i) + SectionTokens(SectionTextLen(seg.sections[i])) > seg.max_tokens}

C30_ContextWithinBudget ==
    ContextBuilt =>
        /\ \A k \in 1..Len(seg.parts) : seg.parts[k].section = k
        /\ \A k \in 1..Len(seg.parts) :
              ~seg.parts[k].truncated =>
                  seg.parts[k].chars = SectionTextLen(seg.sections[k])
        /\ Exceeding = {} => /\ Len(seg.parts) = Len(seg.sections)
                             /\ \A k \in 1..Len(seg.parts) : ~seg.parts[k].truncated
        /\ Exceeding # {} =>
              LET first == CHOOSE i \in Exceeding : \A j \in Exceeding : i <= j
              IN /\ Len(seg.parts) = first
                 /\ seg.parts[first].truncated
                 /\ seg.parts[first].chars < SectionTextLen(seg.sections[first])
                 /\ \A k \in 1..(first - 1) : ~seg.parts[k].truncated
        /\ SectionTokens(JoinedLen(seg.parts)) <= seg.max_tokens


(* C31: the graph run always terminates.  At all times the section cursor lies
   between 0 and the number of sections; the section loop is left exactly when
   the cursor equals the number of sections; every visit to process_section
   advances the cursor by exactly one, on success and on failure; and for every
   combination of failing calls the run reaches END with the page digest set. *)
InSectionLoop == flow = "graph" /\ pc = "process_section"

C31_CursorInRange ==
    (flow = "graph" /\ pc # "idle") =>
        /\ 0 <= state.current_section_index
        /\ state.current_section_index <= Len(state.sections)

C31_LoopLeftAtEnd ==
    [][InSectionLoop =>
          (pc' = "embed" <=> state'.current_section_index = Len(state'.sections))]_vars

C31_ReachesEnd ==
    (flow = "graph") ~> (pc = "done" /\ state.page_summary # <<>>)

C31_EveryVisitAdvances ==
    [][InSectionLoop =>
          state'.current_section_index = state.current_section_index + 1]_vars

C31_VisitAdvancesOverSection ==
    [][InSectionLoop =>
          state'.current_section_index =
              IF state.current_section_index < Len(state.sections)
              THEN state.current_section_index + 1
              ELSE state.current_section_index]_vars

SummaryKeys(st) == {st.section_summaries[j][1] : j \in 1..Len(st.section_summaries)}

C32_KeysAreProcessedSections ==
    (flow = "graph" /\ pc # "idle") =>
        /\ SummaryKeys(state)
              = {state.sections[i].section_id : i \in 1..state.current_section_index}
        /\ Len(state.section_summaries) = state.current_section_index

C32_EntriesKept ==
    [][InSectionLoop =>
          \A j \in 1..Len(state.section_summaries) :
              /\ j <= Len(state'.section_summaries)
              /\ state'.section_summaries[j] = state.section_summaries[j]]_vars

C32_SummaryMapGrowsBySection == []C32_KeysAreProcessedSections /\ C32_EntriesKept

(* The loop has processed two sections, the first of which failed *)
C32_Witness ==
    /\ flow = "graph"
    /\ state.current_section_index >= 2
    /\ Len(state.section_summaries) >= 2
    /\ state.section_summaries[1][2].kind = "placeholder"
    /\ state.section_summaries[2][2].kind = "summary"


(* C33: after a section has been processed, in the graph flow and in the streaming
   flow, its own record is updated with the map: the section is marked summarized
   and its summary_text is its entry of the summary map; so in the state cached at
   the end of a run every section with an entry of the map is marked summarized. *)
SectionUpdatedWithMap(st) ==
    \A j \in 1..Len(st.section_summaries) :
        \A i \in 1..Len(st.sections) :
            st.sections[i].section_id = st.section_summaries[j][1] =>
                /\ st.sections[i].is_summarized
                /\ st.sections[i].summary_text = st.section_summaries[j][2]

C33_SectionRecordFollowsMap ==
    /\ pc # "idle" => SectionUpdatedWithMap(state)
    /\ \A d \in Docs : page_states[d] # NoState => SectionUpdatedWithMap(page_states[d])


(* C34: whenever a run has finished source indexing with embeddings_saved true,
   the index holds a source record for every section of the text the run
   segmented, and no source record of the document for a section that is not in
   that text; also when the document already had records before the run. *)
SourceIndexed ==
    /\ "source_indexing" \in {stage_log[k] : k \in 1..Len(stage_log)}
    /\ state.embeddings_saved

SourceRecords(d) ==
    {v \in index[generate_namespace(d)] : v.metadata.embedding_type = "source"}

C34_IndexMatchesSegmentedText ==
    SourceIndexed =>
        /\ \A i \in 1..Len(state.sections) :
              \E v \in SourceRecords(state.page_url) :
                  /\ v.metadata.section_id = state.sections[i].section_id
                  /\ v.metadata.section_text = state.sections[i].raw_text
        /\ \A v \in SourceRecords(state.page_url) :
              \E i \in 1..Len(state.sections) :
                  v.metadata.section_id = state.sections[i].section_id


(* C35: the events of a streaming run are well formed.  For each section i, in
   increasing order, there is one section_start(i), then only tokens of that
   section, then one section_end(i); synthesis_start and synthesis_end occur once,
   in that order and after the last section_end, exactly when there is more than
   one section summary; exactly one complete event is emitted and it is the last
   event; no token lies outside a section or synthesis bracket. *)
RunEnded == seg.op = "summarize_page_streaming" /\ seg.at \in {"done", "raised"}

Where(e) == {k \in 1..Len(seg.events) : seg.events[k] = e}

Once(e) == Cardinality(Where(e)) = 1

At(e) == CHOOSE k \in Where(e) : TRUE

C35_EventsWellFormed ==
    RunEnded =>
        LET ev == seg.events
            n == Len(seg.is_large)
        IN /\ \A i \in 0..(n - 1) :
                 /\ Once(Event("section_start", i))
                 /\ Once(Event("section_end", i))
                 /\ At(Event("section_start", i)) < At(Event("section_end", i))
                 /\ \A k \in (At(Event("section_start", i)) + 1)
                               ..(At(Event("section_end", i)) - 1) :
                       ev[k] = Event("token", i)
                 /\ i + 1 < n =>
                       At(Event("section_end", i)) < At(Event("section_start", i + 1))
           /\ IF n > 1
              THEN /\ Once(Event("synthesis_start", -1))
                   /\ Once(Event("synthesis_end", -1))
                   /\ At(Event("section_end", n - 1)) < At(Event("synthesis_start", -1))
                   /\ At(Event("synthesis_start", -1)) < At(Event("synthesis_end", -1))
              ELSE /\ Where(Event("synthesis_start", -1)) = {}
                   /\ Where(Event("synthesis_end", -1)) = {}
           /\ Once(Event("complete", -1))
           /\ ev[Len(ev)] = Event("complete", -1)
           /\ \A k \in 1..Len(ev) :
                 ev[k].event = "token" =>
                    \/ /\ ev[k].index >= 0
                       /\ At(Event("section_start", ev[k].index)) < k
                       /\ k < At(Event("section_end", ev[k].index))
                    \/ /\ ev[k].index = -1
                       /\ At(Event("synthesis_start", -1)) < k
                       /\ k < At(Event("synthesis_end", -1))


(* C36: generate_stream starts another attempt only when no fragment of the call
   has been yielded to the consumer, so whatever the retries and failures no
   fragment is delivered twice and the fragments of different attempts are never
   mixed in one output. *)
TextFragments(yielded) == SelectSeq(yielded, LAMBDA f : f.kind = "text")

C36_OneAttemptDelivers ==
    seg.op = "generate_stream" =>
        LET text == TextFragments(seg.yielded)
        IN /\ \A k \in 1..Len(text) : text[k] = Fragments(Len(text))[k]
           /\ seg.status = "running" => seg.yielded = <<>>

C36_RetryOnlyBeforeFirstFragment ==
    [][(seg.op = "generate_stream" /\ seg'.op = "generate_stream"
           /\ seg'.status = "running")
          => (seg.yielded = <<>> /\ seg'.yielded = <<>>)]_vars

C36_NoFragmentReplayed == []C36_OneAttemptDelivers /\ C36_RetryOnlyBeforeFirstFragment

(* The stream was delivered by the third attempt, after two rate limits *)
C36_Witness ==
    /\ seg.op = "generate_stream"
    /\ seg.status = "returned"
    /\ seg.attempt = MAX_RETRIES
    /\ Len(seg.slept) = MAX_RETRIES - 1
    /\ seg.response.kind = "ok"
    /\ Len(seg.yielded) >= 2


(* C37: the raw text of every section is the trimmed span between the end of its
   heading marker and the start of the next marker (or the end of the document),
   the text before the first heading is the "Introduction" section, no
   non-blank character lying between two markers is lost from its section, and
   no character belongs to two sections. *)
SpanOfHeading(s, i) ==
    LET headings == extract_headings(seg.doc)
    IN /\ s.start_pos = headings[i].end + 1
       /\ s.end_pos = (IF i < Len(headings) THEN headings[i + 1].start
                       ELSE TextLen(seg.doc))
       /\ s.raw_text.len = seg.doc.heads[i].body

SpanOfIntroduction(s) ==
    /\ s.heading = "Introduction"
    /\ s.start_pos = 0
    /\ s.end_pos = extract_headings(seg.doc)[1].start
    /\ s.raw_text.len = seg.doc.pre

C37_SectionsPartitionText ==
    (Segmented /\ seg.doc.heads # <<>>) =>
        /\ \A k \in 1..Len(seg.sections) :
              \/ SpanOfIntroduction(seg.sections[k])
              \/ \E i \in 1..Len(seg.doc.heads) : SpanOfHeading(seg.sections[k], i)
        /\ \A i \in 1..Len(seg.doc.heads) :
              seg.doc.heads[i].body > 0 =>
                 \E k \in 1..Len(seg.sections) : SpanOfHeading(seg.sections[k], i)
        /\ seg.doc.pre > 0 =>
              \E k \in 1..Len(seg.sections) : SpanOfIntroduction(seg.sections[k])
        /\ \A j, k \in 1..Len(seg.sections) :
              j < k => seg.sections[j].end_pos <= seg.sections[k].start_pos


(* C38: a segmentation failure is never fatal and degrades to the whole document
   as one section: when the extraction fails on a non-empty document the run
   continues with exactly one section and ends with a summary of it. *)
ExtractionFailedRun ==
    /\ pc \in {"process_section", "embed", "synthesize", "stream_section",
               "stream_synthesis", "done", "aborted"}
    /\ page.texts # <<>>
    /\ state.error = "Failed to extract sections"

C38_SegmentationFailureDegrades ==
    ExtractionFailedRun =>
        /\ pc # "aborted"
        /\ Len(state.sections) = 1
        /\ pc = "done" =>
              /\ Len(state.section_summaries) = 1
              /\ state.page_summary = state.section_summaries[1][2]


(* C39: is_page_indexed(d) holds only if a state is cached for d and its source
   indexing succeeded; an indexing attempt whose embedding step failed leaves
   the page not indexed; clearing the cache of d makes it false for d and leaves
   the cached state of every other document unchanged; and a chat query never
   changes the cached state of a document other than those its fallback newly
   indexed. *)
IndexedByFallback(d) ==
    /\ d \in PageSet(lastOp'.crawled)
    /\ is_page_indexed(page_states', d)

C39_CacheFrame ==
    [][/\ \A d \in Docs :
             is_page_indexed(page_states', d) =>
                (page_states'[d] # NoState /\ page_states'[d].embeddings_saved)
       /\ lastOp'.op = "clear_page_cache" =>
             /\ ~is_page_indexed(page_states', lastOp'.doc)
             /\ \A d \in Docs \ {lastOp'.doc} : page_states'[d] = page_states[d]
       /\ lastOp'.op \in {"handle_chat_query_streaming", "handle_chat_query_fallback"} =>
             \A d \in Docs :
                page_states'[d] # page_states[d] => IndexedByFallback(d)]_vars


(* The retrieval specification: retrieve_sections called with and without
   explicit limits, on an empty and on a populated index *)
LimitTopK == {None, 1, 2}
LimitThresholds == {None, 0, 20, 50}

NextRetrieve ==
    \E d \in Docs, q \in Queries, r \in Roles, k \in LimitTopK, t \in LimitThresholds :
        RetrieveSections(d, q, r, k, t)

SpecRetrieve == Init /\ [][NextRetrieve]_vars

(* C40: retrieve_sections honours every limit its caller passes explicitly: with
   a score_threshold t it returns every match of the document and role whose
   score is at least t, up to top_k, t = 0 included; with a top_k k it returns
   at most k results; the configured defaults apply only when no value is
   passed. *)
LimitInForce(passed, default) == IF passed = None THEN default ELSE passed

C40_ExplicitLimitsHonoured ==
    lastOp.op = "retrieve_sections" =>
        LET cands == SectionCandidates(index, lastOp.doc, lastOp.role)
            sc    == QueryScores(cands, lastOp.query)
            k     == LimitInForce(lastOp.top_k, top_k_retrieval)
            t     == LimitInForce(lastOp.threshold, similarity_threshold)
            above == {c \in cands : sc[c] >= t}
        IN /\ Len(results) <= k
           /\ \A i \in 1..Len(results) : results[i].score >= t
           /\ Len(results) = Min(k, Cardinality(above))

====
